---- MODULE Spec2Model ----
(***************************************************************************)
(* State-machine model of the remote-command server (bn3monkey):          *)
(*   CommandServer  (handler thread: accept loop + request dispatcher),    *)
(*   StreamServer   (acceptor thread installing the stream sink),          *)
(*   RemoteProcess  (process supervisor: child, pipes, two reader threads),*)
(*   the shutdown sequence run by the owning thread,                        *)
(* together with the environment: the client, the child process.           *)
(***************************************************************************)
EXTENDS Integers, Sequences, FiniteSets, TLC

(***************************************************************************)
(* Bounds of the model (not program constants).                            *)
(***************************************************************************)
MaxSessions == 2      \* command connections the client opens in one run
MaxStreams  == 2      \* stream connections the client opens in one run
MaxChunks   == 1      \* chunks the children write in one run
MaxPid      == 2      \* size of the operating system's pid space
OneSession  == 1      \* command connections in the stream and shutdown runs
ShutdownStreams == 1  \* stream connections in the shutdown runs
MaxCwdLen == 2
MaxDepth == 2
MaxBytes == 8192      \* bytes a child writes to one pipe in the byte-counting runs

(***************************************************************************)
(* Program constants.                                                       *)
(***************************************************************************)
INVALID_SOCK == -1
NO_PROCESS == -1
PROCESS_TOKEN == 1
TOKEN_SIZE == 4
INSTRUCTION_EMPTY == 0
INSTRUCTION_CURRENT_WORKING_DIRECTORY == 268439552
INSTRUCTION_MOVE_CURRENT_WORKING_DIRECTORY == 268439553
INSTRUCTION_LIST_DIRECTORY_CONTENTS == 268439555
INSTRUCTION_CREATE_DIRECTORY == 268439556
INSTRUCTION_REMOVE_DIRECTORY == 268439557
INSTRUCTION_RUN_COMMAND == 268443648
INSTRUCTION_OPEN_PROCESS == 268443649
INSTRUCTION_CLOSE_PROCESS == 268443650
INSTRUCTION_UPLOAD_FILE == 268447744
INSTRUCTION_DOWNLOAD_FILE == 268447745
sizeof_buf == 4096
sizeof_RemoteDirectoryContentInner == 132
STREAM_OUTPUT == 12288
STREAM_ERROR == 16384

Readers == {"out", "err"}
Callers == {"handler", "main"}
Threads == {"handler", "acceptor", "main"} \cup Readers

\* RemoteCommandStreamType used by each reader thread
StreamType(t) == IF t = "out" THEN STREAM_OUTPUT ELSE STREAM_ERROR

\* Instructions for which handleCommand has a case that touches no supervisor
\* state and answers with one frame (the cwd / directory / file family).
FsInstructions == {INSTRUCTION_CURRENT_WORKING_DIRECTORY}

\* Instructions whose case reads or changes the session's working directory or
\* the filesystem, and answers with one frame whose payload it computes.
PathInstructions ==
    {INSTRUCTION_MOVE_CURRENT_WORKING_DIRECTORY, INSTRUCTION_CREATE_DIRECTORY,
     INSTRUCTION_REMOVE_DIRECTORY, INSTRUCTION_UPLOAD_FILE, INSTRUCTION_DOWNLOAD_FILE}

ServedInstructions ==
    FsInstructions \cup PathInstructions \cup
    {INSTRUCTION_RUN_COMMAND, INSTRUCTION_OPEN_PROCESS, INSTRUCTION_CLOSE_PROCESS}

NoReq == [instr |-> -1, magic |-> FALSE, complete |-> FALSE, token |-> -1, p0len |-> 0]

Req(i, m, c, tk, l) == [instr |-> i, magic |-> m, complete |-> c, token |-> tk, p0len |-> l]

\* The request frames the client may put on the command channel.
ClientRequests ==
    {Req(i, TRUE, TRUE, -1, 0) :
        i \in FsInstructions \cup {INSTRUCTION_RUN_COMMAND, INSTRUCTION_OPEN_PROCESS,
                                   INSTRUCTION_EMPTY}}
    \cup {Req(INSTRUCTION_CLOSE_PROCESS, TRUE, TRUE, tk, TOKEN_SIZE) : tk \in {-1, 1, 2}}
    \cup {Req(INSTRUCTION_CLOSE_PROCESS, TRUE, TRUE, 1, 2)}
    \cup {Req(INSTRUCTION_CURRENT_WORKING_DIRECTORY, FALSE, TRUE, -1, 0)}
    \cup {Req(INSTRUCTION_CURRENT_WORKING_DIRECTORY, TRUE, FALSE, -1, 0)}

\* The request frames of the runs that concentrate on the stream channel:
\* OPEN_PROCESS, and CLOSE_PROCESS with the token OPEN_PROCESS returns.
StreamRequests ==
    {Req(INSTRUCTION_OPEN_PROCESS, TRUE, TRUE, -1, 0),
     Req(INSTRUCTION_CLOSE_PROCESS, TRUE, TRUE, PROCESS_TOKEN, TOKEN_SIZE)}

\* The request frames of the runs that concentrate on shutdown: the two that
\* start a child.
SpawnRequests ==
    {Req(i, TRUE, TRUE, -1, 0) : i \in {INSTRUCTION_RUN_COMMAND, INSTRUCTION_OPEN_PROCESS}}

\* The request frame of the runs that concentrate on RUN_COMMAND.
RunRequests == {Req(INSTRUCTION_RUN_COMMAND, TRUE, TRUE, -1, 0)}

(***************************************************************************)
(* Paths, and the filesystem the directory and file cases work on.          *)
(***************************************************************************)

\* a std::filesystem::path: whether it has a root, and its components in order
Path(a, s) == [abs |-> a, parts |-> s]

\* resolvePath(cwd, p): fp.is_absolute() ? fp : fs::path(cwd) / fp.  Nothing is
\* normalised: the components of p are appended to those of cwd as they are.
resolvePath(cwd, p) == IF p.abs THEN p ELSE Path(cwd.abs, cwd.parts \o p.parts)

\* the first k components of p
Prefix(p, k) == Path(p.abs, SubSeq(p.parts, 1, k))

\* target.parent_path(): the path without its last component
parent_path(p) == IF p.parts = <<>> THEN p ELSE Prefix(p, Len(p.parts) - 1)

\* A node of the filesystem is named by the names on the way from the root.
ParentNode(n) == IF n = <<>> THEN <<>> ELSE SubSeq(n, 1, Len(n) - 1)

\* where one component leads from node n
StepNode(n, c) ==
    CASE c = "."  -> n
      [] c = ".." -> ParentNode(n)
      [] OTHER    -> Append(n, c)

Directory == [kind |-> "dir", data |-> <<>>]
RegularFile(d) == [kind |-> "file", data |-> d]

IsDirAt(f, n) == n \in DOMAIN f /\ f[n].kind = "dir"
IsFileAt(f, n) == n \in DOMAIN f /\ f[n].kind = "file"

\* filesystem f with entry e at node n
WithEntry(f, n, e) == [x \in DOMAIN f \cup {n} |-> IF x = n THEN e ELSE f[x]]

\* node n is m or lies below m
Below(n, m) == Len(n) >= Len(m) /\ SubSeq(n, 1, Len(m)) = m

RECURSIVE Walk(_, _, _)
\* the kernel's lookup of components s from node at: every component, "." and
\* ".." included, is looked up in a directory that exists.  The set holds the
\* node reached (which may not exist), or nothing when the way is broken.
Walk(f, s, at) ==
    IF s = <<>> THEN {at}
    ELSE IF ~IsDirAt(f, at) THEN {}
    ELSE Walk(f, Tail(s), StepNode(at, Head(s)))

RECURSIVE Normal(_, _)
\* lexical removal of "." and "..", with no lookup
Normal(s, at) == IF s = <<>> THEN at ELSE Normal(Tail(s), StepNode(at, Head(s)))

\* what fs::canonical returns for a path that exists
Canonical(p) == Path(TRUE, Normal(p.parts, <<>>))

\* The server is started in the root directory of an empty filesystem:
\* open() stores fs::canonical(initial_cwd).string().
InitialDirectory == Path(TRUE, <<>>)
InitialFiles == WithEntry(<<>>, <<>>, Directory)

\* the bool of a response payload, sizeof(bool) bytes
Flag(b) == IF b THEN <<1>> ELSE <<0>>

\* a request frame of the directory / file family: payload 0 is the path p,
\* payload 1 the bytes b
FsReq(i, p, b) ==
    [instr |-> i, magic |-> TRUE, complete |-> TRUE, token |-> -1,
     p0len |-> Len(p.parts), p0 |-> p, p1 |-> b]

Rel(s) == Path(FALSE, s)

\* The directory / file requests of the client: relative and absolute paths,
\* "." and "..", names of directories, of files and of nothing; empty and
\* non-empty file contents.
FsRequests ==
    {Req(INSTRUCTION_CURRENT_WORKING_DIRECTORY, TRUE, TRUE, -1, 0)}
    \cup {FsReq(INSTRUCTION_MOVE_CURRENT_WORKING_DIRECTORY, p, <<>>) :
            p \in {Rel(<<"d">>), Rel(<<".">>), Rel(<<"..">>), Rel(<<"f">>),
                   Path(TRUE, <<"d">>)}}
    \cup {FsReq(INSTRUCTION_CREATE_DIRECTORY, p, <<>>) :
            p \in {Rel(<<"d">>), Rel(<<"d", "d">>), Rel(<<"d", "..", "d">>)}}
    \cup {FsReq(INSTRUCTION_REMOVE_DIRECTORY, p, <<>>) :
            p \in {Rel(<<"d">>), Rel(<<"d", "d">>)}}
    \cup {FsReq(INSTRUCTION_UPLOAD_FILE, Rel(<<"f">>), b) : b \in {<<>>, <<7>>}}
    \cup {FsReq(INSTRUCTION_UPLOAD_FILE, p, <<7>>) : p \in {Rel(<<"d", "f">>), Rel(<<"d">>)}}
    \cup {FsReq(INSTRUCTION_DOWNLOAD_FILE, p, <<>>) :
            p \in {Rel(<<"f">>), Rel(<<"d", "f">>), Rel(<<"d">>)}}

\* The requests of the runs that follow the working directory over several
\* sessions: it is asked for, moved (to the directory, to its parent, to the
\* file, to a missing name), its target is created and removed, and commands
\* and processes are started.
CwdRequests ==
    {Req(INSTRUCTION_CURRENT_WORKING_DIRECTORY, TRUE, TRUE, -1, 0)}
    \cup {FsReq(INSTRUCTION_MOVE_CURRENT_WORKING_DIRECTORY, p, <<>>) :
            p \in {Rel(<<"d">>), Rel(<<"..">>), Path(TRUE, <<"f">>), Rel(<<"x">>)}}
    \cup {FsReq(i, Path(TRUE, <<"d">>), <<>>) :
            i \in {INSTRUCTION_CREATE_DIRECTORY, INSTRUCTION_REMOVE_DIRECTORY}}
    \cup {Req(i, TRUE, TRUE, -1, 0) : i \in {INSTRUCTION_RUN_COMMAND, INSTRUCTION_OPEN_PROCESS}}

VARIABLES
    platform,            \* "posix" or "win32": which #ifdef branch was built
    pc,                  \* position of every thread
    cmd_running,         \* CommandServer::_running
    stream_running,      \* StreamServer::_running
    cmd_server_open,     \* CommandServer::_server_sock is a listening socket
    stream_server_open,  \* StreamServer::_server_sock is a listening socket
    client_sock_field,   \* CommandServer::_client_sock
    client_sock,         \* handlerLoop's local client_sock
    cmdOpen,             \* accepted command sockets open on the server side
    cmdPeer,             \* accepted command sockets whose client end is open
    cmdAccepted,         \* number of command connections accepted so far
    cmdBacklog,          \* pending connections on the command listener
    req,                 \* request frame being served (NoReq when none)
    execRet,             \* value returned by execute() for the request
    respTried,           \* response frames written in this pass of the loop
    lastResp,            \* the response frame written in this pass of the loop
    lastAck,             \* whether the last answered request was a CLOSE_PROCESS
    closeRet,            \* where close() returns to
    current_process_id,  \* RemoteProcess::_current_process_id
    pid_field,           \* RemoteProcess::_pid / _hProcess (-1 when none)
    pipes,               \* _stdin_write, _stdout_read, _stderr_read are open
    joinable,            \* _stdout_reader / _stderr_reader joinable()
    stream_sock,         \* RemoteProcess::_stream_sock
    stream_mtx,          \* RemoteProcess::_stream_mtx: "free" or its holder
    rchunk,              \* chunk a reader has read and not yet forwarded
    rsock,               \* stream_sock argument of a reader's sendStream call
    cancelled,           \* a reader's pending ReadFile has been cancelled
    pipebuf,             \* bytes (chunks) buffered in the stdout / stderr pipe
    wopen,               \* the child still holds the write end of the pipe
    produced,            \* chunks written to each pipe so far
    alive,               \* pids of running children
    zombies,             \* pids of exited children not yet reaped
    signalled,           \* pids a termination signal was sent to
    strOpen,             \* accepted stream sockets open on the server side
    strPeer,             \* accepted stream sockets whose client end is open
    strAccepted,         \* number of stream connections accepted so far
    strBacklog,          \* pending connections on the stream listener
    strLast,             \* per stream socket: the last write issued on it
    delivered,           \* per pipe: the chunks whose payload went out, in order
    new_sock,            \* acceptLoop's local new_sock
    old_sock,            \* acceptLoop's local old_sock / remaining
    current_directory,   \* CommandServer::_current_directory
    fsys,                \* the server's filesystem: entry of every existing path
    result,              \* payload bytes of the last directory / file response
    frame                \* a directory or file response: what it holds, what was sent

connVars == <<cmd_running, stream_running, cmd_server_open, stream_server_open,
              client_sock_field, client_sock, cmdOpen, cmdPeer, cmdAccepted,
              cmdBacklog>>
reqVars  == <<req, execRet, respTried, lastResp, lastAck>>
procVars == <<current_process_id, pid_field, pipes, joinable, alive, zombies,
              signalled, pipebuf, wopen>>
sinkVars == <<stream_sock, stream_mtx, rchunk, rsock, strLast, delivered>>
strVars  == <<strOpen, strPeer, strAccepted, strBacklog, new_sock, old_sock>>
fsVars   == <<current_directory, fsys, result>>

vars == <<platform, frame, pc, connVars, reqVars, closeRet, procVars, cancelled, produced,
          sinkVars, strVars, fsVars>>

Goto(t, l) == pc' = [pc EXCEPT ![t] = l]

PipesClosed == [stdin_write |-> FALSE, out |-> FALSE, err |-> FALSE]
PipesOpen   == [stdin_write |-> TRUE, out |-> TRUE, err |-> TRUE]

\* nothing written on a stream socket yet
NoWrite == [kind |-> "none", type |-> 0, chunk |-> 0]

\* no response frame sent in this pass through the dispatcher loop
NoResp == [instr |-> -1, payload |-> "none"]

\* the number hi * 2^16 + lo, lo below 2^16: sizes and lengths of up to 64
\* bits are kept in two parts
Norm(hi, lo) == [hi |-> hi + lo \div 65536, lo |-> lo % 65536]

\* static_cast<uint32_t>(a), and the value a uint32_t variable keeps of a
Uint32(a) == [hi |-> a.hi % 65536, lo |-> a.lo]

\* no directory or file response is being built
NoFrame == [instr |-> INSTRUCTION_EMPTY, opened |-> FALSE, size |-> Norm(0, 0),
            sent |-> FALSE, payload_length |-> Norm(0, 0), written |-> Norm(0, 0)]

(***************************************************************************)
(* State after CommandServer::open and StreamServer::open have succeeded:  *)
(* both listeners are open, _running is true in both servers, the handler  *)
(* and acceptor threads are at the top of their loops, no process exists.  *)
(* InitServer is all of it but the working directory and the filesystem.   *)
(***************************************************************************)
InitServer ==
    /\ platform \in {"posix", "win32"}
    /\ pc = [t \in Threads |->
                CASE t = "handler"  -> "hl_loop"
                  [] t = "acceptor" -> "a_loop"
                  [] t = "main"     -> "m_run"
                  [] OTHER          -> "r_idle"]
    /\ cmd_running = TRUE
    /\ stream_running = TRUE
    /\ cmd_server_open = TRUE
    /\ stream_server_open = TRUE
    /\ client_sock_field = INVALID_SOCK
    /\ client_sock = INVALID_SOCK
    /\ cmdOpen = {}
    /\ cmdPeer = {}
    /\ cmdAccepted = 0
    /\ cmdBacklog = 0
    /\ req = NoReq
    /\ execRet = NO_PROCESS
    /\ respTried = 0
    /\ lastResp = NoResp
    /\ lastAck = "none"
    /\ closeRet = "none"
    /\ current_process_id = NO_PROCESS
    /\ pid_field = -1
    /\ pipes = PipesClosed
    /\ joinable = [t \in Readers |-> FALSE]
    /\ stream_sock = INVALID_SOCK
    /\ stream_mtx = "free"
    /\ rchunk = [t \in Readers |-> 0]
    /\ rsock = [t \in Readers |-> INVALID_SOCK]
    /\ cancelled = [t \in Readers |-> FALSE]
    /\ pipebuf = [t \in Readers |-> <<>>]
    /\ wopen = [t \in Readers |-> FALSE]
    /\ produced = [t \in Readers |-> 0]
    /\ alive = {}
    /\ zombies = {}
    /\ signalled = {}
    /\ strOpen = {}
    /\ strPeer = {}
    /\ strAccepted = 0
    /\ strBacklog = 0
    /\ strLast = [s \in 1..(MaxStreams + ShutdownStreams) |-> NoWrite]
    /\ delivered = [t \in Readers |-> <<>>]
    /\ new_sock = INVALID_SOCK
    /\ old_sock = INVALID_SOCK
    /\ result = <<>>

\* the server was opened in the root directory of an empty filesystem
Init ==
    /\ InitServer
    /\ current_directory = InitialDirectory
    /\ fsys = InitialFiles
    /\ frame = NoFrame

\* The filesystem in which the server is opened with a working directory the
\* caller names: the root with a directory "d" and a regular file "f".
OpenFiles ==
    WithEntry(WithEntry(InitialFiles, <<"d">>, Directory), <<"f">>, RegularFile(<<>>))

\* CommandServer::open: p is initial_cwd when that is a non-empty string and
\* fs::current_path() otherwise (the root, where the server process runs);
\* _current_directory = ec ? p.string() : fs::canonical(p, ec).string().
\* canonical fails when p names nothing.
OpenDirectory(f, initial_cwd) ==
    LET p == IF initial_cwd = Path(FALSE, <<>>) THEN InitialDirectory ELSE initial_cwd
        a == resolvePath(InitialDirectory, p)
    IN  IF \E n \in Walk(f, a.parts, <<>>) : n \in DOMAIN f THEN Canonical(a) ELSE p

\* the server was opened with one of: no working directory, the root, the
\* directory, a relative path to it through "..", the file, a missing name
InitOpen ==
    /\ InitServer
    /\ fsys = OpenFiles
    /\ frame = NoFrame
    /\ \E initial_cwd \in {Path(FALSE, <<>>), Path(TRUE, <<>>), Path(TRUE, <<"d">>),
                            Path(FALSE, <<"d", "..", "d">>), Path(TRUE, <<"f">>),
                            Path(TRUE, <<"x">>)} :
          current_directory = OpenDirectory(fsys, initial_cwd)

(***************************************************************************)
(* RemoteProcess: the process supervisor.                                   *)
(***************************************************************************)

\* is_running(), and the test at the head of execute()
ProcessRegistered == current_process_id # NO_PROCESS

\* join() on a joinable reader returns once that thread has left its loop
ReadersFinished == \A r \in Readers : joinable[r] => pc[r] = "r_done"

\* pc after thread t moves to label l and the readers have been joined
PcJoined(t, l) ==
    [x \in Threads |->
        IF x = t THEN l
        ELSE IF x \in Readers /\ joinable[x] THEN "r_idle" ELSE pc[x]]

\* pc after thread t moves to label l and both reader threads were started
PcStarted(t, l) ==
    [x \in Threads |-> IF x = t THEN l ELSE IF x \in Readers THEN "r_read_call" ELSE pc[x]]

\* fork() / CreateProcess hands out the lowest pid that is not in use
FreePids == (1..MaxPid) \ (alive \cup zombies)
NewPid == CHOOSE p \in FreePids : \A q \in FreePids : p <= q

\* joinReaders(): join _stdout_reader, then _stderr_reader, when joinable
JoinReaders(t, l) ==
    /\ ReadersFinished
    /\ pc' = PcJoined(t, l)
    /\ joinable' = [r \in Readers |-> FALSE]

\* closePipes(): close _stdin_write, _stdout_read, _stderr_read and reset the
\* fields; whatever is still buffered in a pipe is unreachable from then on
\* for a reader that starts a new read on the field.
ClosePipes ==
    /\ pipes' = PipesClosed

\* reapProcess(): waitpid / WaitForSingleObject on the registered child (blocks
\* until it has exited), forget it, reset _current_process_id.
ReapProcess ==
    /\ pid_field # -1 => pid_field \in zombies
    /\ zombies' = zombies \ {pid_field}
    /\ signalled' = signalled \ {pid_field}
    /\ pid_field' = -1
    /\ current_process_id' = NO_PROCESS

\* execute() whose failure paths return without closing the read ends that
\* the attempt had created
SpawnKeepsPipes(t, ret, l) ==
    /\ ReadersFinished
    /\ \/ /\ ret = -1
          /\ pc' = PcJoined(t, l)
          /\ joinable' = [r \in Readers |-> FALSE]
          /\ pipes' = PipesOpen
          /\ UNCHANGED <<current_process_id, pid_field, alive, zombies,
                         signalled, pipebuf, wopen, cancelled>>
       \/ /\ ret = PROCESS_TOKEN
          /\ FreePids # {}
          /\ alive' = alive \cup {NewPid}
          /\ pid_field' = NewPid
          /\ pipes' = PipesOpen
          /\ pipebuf' = [r \in Readers |-> <<>>]
          /\ wopen' = [r \in Readers |-> TRUE]
          /\ current_process_id' = PROCESS_TOKEN
          /\ joinable' = [r \in Readers |-> TRUE]
          /\ cancelled' = [r \in Readers |-> FALSE]
          /\ pc' = PcStarted(t, l)
          /\ UNCHANGED <<zombies, signalled>>

\* execute() past its first test: joinReaders(); closePipes(); create the
\* pipes, spawn the shell, register the child and start the reader threads.
Spawn(t, ret, l) ==
    /\ ReadersFinished
    /\ \/ \* pipe(), fork() or CreateProcess failed: nothing is registered
          /\ ret = -1
          /\ pc' = PcJoined(t, l)
          /\ joinable' = [r \in Readers |-> FALSE]
          /\ ClosePipes
          /\ UNCHANGED <<current_process_id, pid_field, alive, zombies,
                         signalled, pipebuf, wopen, cancelled>>
       \/ \* the child runs; both reader threads are started
          /\ ret = PROCESS_TOKEN
          /\ FreePids # {}
          /\ alive' = alive \cup {NewPid}
          /\ pid_field' = NewPid
          /\ pipes' = PipesOpen
          /\ pipebuf' = [r \in Readers |-> <<>>]
          /\ wopen' = [r \in Readers |-> TRUE]
          /\ current_process_id' = PROCESS_TOKEN
          /\ joinable' = [r \in Readers |-> TRUE]
          /\ cancelled' = [r \in Readers |-> FALSE]
          /\ pc' = PcStarted(t, l)
          /\ UNCHANGED <<zombies, signalled>>

\* execute() without its first test
ExecuteNoGuard(t, ret, l) == Spawn(t, ret, l)

\* execute(cwd, cmd) called by thread t, returning ret, t continuing at l:
\* if (_current_process_id != -1) return -1;
Execute(t, ret, l) ==
    IF ProcessRegistered
    THEN /\ ret = -1
         /\ Goto(t, l)
         /\ UNCHANGED <<procVars, cancelled>>
    ELSE Spawn(t, ret, l)

\* await(process_id): joinReaders(), then reapProcess()
AwaitJoin(t) ==
    /\ pc[t] = "aw_join"
    /\ JoinReaders(t, "aw_reap")
    /\ UNCHANGED <<platform, frame, fsVars, connVars, reqVars, closeRet, current_process_id, pid_field,
                   pipes, alive, zombies, signalled, pipebuf, wopen, cancelled, produced,
                   sinkVars, strVars>>

AwaitReap(t) ==
    /\ pc[t] = "aw_reap"
    /\ ReapProcess
    /\ Goto(t, "hc_respond")
    /\ UNCHANGED <<platform, frame, fsVars, connVars, reqVars, closeRet, pipes, joinable, alive, pipebuf,
                   wopen, cancelled, produced, sinkVars, strVars>>

\* close(process_id), first statement: kill(-_pid, SIGTERM) / TerminateProcess.
\* The process_id argument is not looked at.
CloseKill(t) ==
    /\ pc[t] = "cl_kill"
    /\ signalled' = IF pid_field # -1 THEN signalled \cup {pid_field} ELSE signalled
    /\ Goto(t, IF platform = "posix" THEN "cl_pipes" ELSE "cl_cancel")
    /\ UNCHANGED <<platform, frame, fsVars, connVars, reqVars, closeRet, current_process_id, pid_field,
                   pipes, joinable, alive, zombies, pipebuf, wopen, cancelled, produced,
                   sinkVars, strVars>>

\* win32 only: CancelSynchronousIo on each joinable reader.  It aborts the
\* ReadFile the reader is blocked in, and does nothing when none is pending:
\* a ReadFile that found bytes in the pipe has completed and returns them.
CloseCancel(t) ==
    /\ pc[t] = "cl_cancel"
    /\ cancelled' = [r \in Readers |->
                        cancelled[r] \/ (/\ joinable[r]
                                         /\ pc[r] = "r_read_wait"
                                         /\ pipebuf[r] = <<>>)]
    /\ Goto(t, "cl_join")
    /\ UNCHANGED <<platform, frame, fsVars, connVars, reqVars, closeRet, procVars, produced,
                   sinkVars, strVars>>

\* closePipes() inside close(): before joinReaders() on posix, after it on win32
ClosePipesStep(t) ==
    /\ pc[t] = "cl_pipes"
    /\ ClosePipes
    /\ Goto(t, IF platform = "posix" THEN "cl_join" ELSE "cl_reap")
    /\ UNCHANGED <<platform, frame, fsVars, connVars, reqVars, closeRet, current_process_id, pid_field,
                   joinable, alive, zombies, signalled, pipebuf, wopen, cancelled,
                   produced, sinkVars, strVars>>

\* close() that goes on to reapProcess() without joinReaders()
CloseJoinSkipped(t) ==
    /\ pc[t] = "cl_join"
    /\ Goto(t, IF platform = "posix" THEN "cl_reap" ELSE "cl_pipes")
    /\ UNCHANGED <<platform, frame, fsVars, connVars, reqVars, closeRet, procVars, cancelled, produced,
                   sinkVars, strVars>>

\* joinReaders() inside close()
CloseJoin(t) ==
    /\ pc[t] = "cl_join"
    /\ JoinReaders(t, IF platform = "posix" THEN "cl_reap" ELSE "cl_pipes")
    /\ UNCHANGED <<platform, frame, fsVars, connVars, reqVars, closeRet, current_process_id, pid_field,
                   pipes, alive, zombies, signalled, pipebuf, wopen, cancelled, produced,
                   sinkVars, strVars>>

CloseReap(t) ==
    /\ pc[t] = "cl_reap"
    /\ ReapProcess
    /\ Goto(t, closeRet)
    /\ closeRet' = "none"
    /\ UNCHANGED <<platform, frame, fsVars, connVars, reqVars, pipes, joinable, alive, pipebuf, wopen,
                   cancelled, produced, sinkVars, strVars>>

(***************************************************************************)
(* acceptWithSelect, shared by the handler and the acceptor thread.         *)
(***************************************************************************)

\* an accept loop that never tests running
AcceptCheckForever(t, running, selectLabel, invalidLabel) ==
    Goto(t, selectLabel)

\* while (running.load()): leave with INVALID_SOCK once running is false
AcceptCheck(t, running, selectLabel, invalidLabel) ==
    Goto(t, IF running THEN selectLabel ELSE invalidLabel)

(***************************************************************************)
(* CommandServer::handlerLoop (handler thread).                             *)
(***************************************************************************)

\* while (_running.load())
HandlerLoop ==
    /\ pc["handler"] = "hl_loop"
    /\ Goto("handler", IF cmd_running THEN "hl_accept_check" ELSE "h_done")
    /\ UNCHANGED <<platform, frame, fsVars, connVars, reqVars, closeRet, procVars, cancelled, produced,
                   sinkVars, strVars>>

HandlerAcceptCheck ==
    /\ pc["handler"] = "hl_accept_check"
    /\ AcceptCheck("handler", cmd_running, "hl_accept_select", "h_done")
    /\ UNCHANGED <<platform, frame, fsVars, connVars, reqVars, closeRet, procVars, cancelled, produced,
                   sinkVars, strVars>>

\* select() with its 100 ms timeout, then accept() when a connection is pending
HandlerAcceptSelect ==
    /\ pc["handler"] = "hl_accept_select"
    /\ \/ /\ cmdBacklog = 0
          /\ Goto("handler", "hl_accept_check")
          /\ UNCHANGED <<client_sock, cmdOpen, cmdPeer, cmdAccepted, cmdBacklog>>
       \/ /\ cmdBacklog > 0
          /\ cmdBacklog' = cmdBacklog - 1
          /\ cmdAccepted' = cmdAccepted + 1
          /\ client_sock' = cmdAccepted + 1
          /\ cmdOpen' = cmdOpen \cup {cmdAccepted + 1}
          /\ cmdPeer' = cmdPeer \cup {cmdAccepted + 1}
          /\ Goto("handler", "hl_store")
       \/ \* accept() fails on the pending connection: continue
          /\ cmdBacklog > 0
          /\ cmdBacklog' = cmdBacklog - 1
          /\ Goto("handler", "hl_accept_check")
          /\ UNCHANGED <<client_sock, cmdOpen, cmdPeer, cmdAccepted>>
    /\ UNCHANGED <<platform, frame, fsVars, cmd_running, stream_running, cmd_server_open,
                   stream_server_open, client_sock_field, reqVars, closeRet, procVars,
                   cancelled, produced, sinkVars, strVars>>

\* _client_sock = client_sock; handleCommand(client_sock);
HandlerStore ==
    /\ pc["handler"] = "hl_store"
    /\ client_sock_field' = client_sock
    /\ Goto("handler", "hc_loop")
    /\ UNCHANGED <<platform, frame, fsVars, cmd_running, stream_running, cmd_server_open,
                   stream_server_open, client_sock, cmdOpen, cmdPeer, cmdAccepted,
                   cmdBacklog, reqVars, closeRet, procVars, cancelled, produced,
                   sinkVars, strVars>>

\* a loop body that goes from handleCommand straight to closeSocket
HandlerAfterNoClose ==
    /\ pc["handler"] = "hl_after"
    /\ Goto("handler", "hl_close_sock")
    /\ UNCHANGED <<platform, frame, fsVars, connVars, reqVars, closeRet, procVars, cancelled,
                   produced, sinkVars, strVars>>

\* after handleCommand: if (_remote_process.is_running()) _remote_process.close(1);
HandlerAfter ==
    /\ pc["handler"] = "hl_after"
    /\ IF ProcessRegistered
       THEN Goto("handler", "cl_kill") /\ closeRet' = "hl_close_sock"
       ELSE Goto("handler", "hl_close_sock") /\ UNCHANGED closeRet
    /\ UNCHANGED <<platform, frame, fsVars, connVars, reqVars, procVars, cancelled, produced,
                   sinkVars, strVars>>

\* a loop body that goes on to the next accept with the client socket left open
HandlerKeepSock ==
    /\ pc["handler"] = "hl_close_sock"
    /\ Goto("handler", "hl_clear")
    /\ UNCHANGED <<platform, frame, fsVars, connVars, reqVars, closeRet, procVars,
                   cancelled, produced, sinkVars, strVars>>

\* closeSocket(client_sock);
HandlerCloseSock ==
    /\ pc["handler"] = "hl_close_sock"
    /\ cmdOpen' = cmdOpen \ {client_sock}
    /\ Goto("handler", "hl_clear")
    /\ UNCHANGED <<platform, frame, fsVars, cmd_running, stream_running, cmd_server_open,
                   stream_server_open, client_sock_field, client_sock, cmdPeer,
                   cmdAccepted, cmdBacklog, reqVars, closeRet, procVars,
                   cancelled, produced, sinkVars, strVars>>

\* an end of session that puts the working directory back to the initial one
HandlerClearResetsCwd ==
    /\ pc["handler"] = "hl_clear"
    /\ client_sock_field' = INVALID_SOCK
    /\ current_directory' = InitialDirectory
    /\ Goto("handler", "hl_loop")
    /\ UNCHANGED <<platform, frame, fsys, result, cmd_running, stream_running, cmd_server_open,
                   stream_server_open, client_sock, cmdOpen, cmdPeer, cmdAccepted,
                   cmdBacklog, reqVars, closeRet, procVars, cancelled, produced,
                   sinkVars, strVars>>

\* _client_sock = INVALID_SOCK;
HandlerClear ==
    /\ pc["handler"] = "hl_clear"
    /\ client_sock_field' = INVALID_SOCK
    /\ Goto("handler", "hl_loop")
    /\ UNCHANGED <<platform, frame, fsVars, cmd_running, stream_running, cmd_server_open,
                   stream_server_open, client_sock, cmdOpen, cmdPeer, cmdAccepted,
                   cmdBacklog, reqVars, closeRet, procVars, cancelled, produced,
                   sinkVars, strVars>>

(***************************************************************************)
(* CommandServer::handleCommand (the request dispatcher, handler thread).   *)
(***************************************************************************)

\* leaving handleCommand: the request being served is gone
LeaveSession ==
    /\ Goto("handler", "hl_after")
    /\ req' = NoReq
    /\ respTried' = 0
    /\ execRet' = NO_PROCESS
    /\ lastResp' = NoResp
    /\ lastAck' = "none"

\* while (_running.load()) { RemoteCommandRequestHeader req(INSTRUCTION_EMPTY);
\* the locals of the previous pass through the loop body are gone
HandleLoop ==
    /\ pc["handler"] = "hc_loop"
    /\ IF cmd_running
       THEN /\ Goto("handler", "hc_recv_call")
            /\ req' = NoReq
            /\ respTried' = 0
            /\ execRet' = NO_PROCESS
            /\ lastResp' = NoResp
            /\ UNCHANGED lastAck
       ELSE LeaveSession
    /\ result' = <<>>
    /\ UNCHANGED <<platform, frame, current_directory, fsys, connVars, closeRet, procVars,
                   cancelled, produced, sinkVars, strVars>>

\* recvAll(client_sock, &req, sizeof(req)) is entered: recv fails at once on a
\* descriptor that is already closed, and blocks otherwise
HandleRecvCall ==
    /\ pc["handler"] = "hc_recv_call"
    /\ IF client_sock \in cmdOpen
       THEN Goto("handler", "hc_recv_wait") /\ UNCHANGED reqVars
       ELSE LeaveSession
    /\ UNCHANGED <<platform, frame, fsVars, connVars, closeRet, procVars, cancelled, produced,
                   sinkVars, strVars>>

\* What ends a recv the handler is blocked in without a frame arriving: the
\* client closing its end, and on win32 closesocket() by another thread.  On
\* posix close() by another thread leaves the blocked recv waiting.
RecvWoken ==
    \/ client_sock \notin cmdPeer
    \/ platform = "win32" /\ client_sock \notin cmdOpen

\* a dispatcher that serves whatever frame arrives, with no valid() test and
\* no test of the payload reads
HandleRecvFrameUnchecked(r) ==
    /\ pc["handler"] = "hc_recv_wait"
    /\ client_sock \in cmdPeer
    /\ ~(platform = "win32" /\ client_sock \notin cmdOpen)
    /\ req' = r
    /\ UNCHANGED <<respTried, execRet, lastResp, lastAck>>
    /\ Goto("handler", "hc_dispatch")
    /\ cmdPeer' = IF r.complete THEN cmdPeer ELSE cmdPeer \ {client_sock}
    /\ UNCHANGED <<platform, frame, fsVars, cmd_running, stream_running, cmd_server_open,
                   stream_server_open, client_sock_field, client_sock, cmdOpen,
                   cmdAccepted, cmdBacklog, closeRet, procVars, cancelled, produced,
                   sinkVars, strVars>>

\* the blocked recvAll calls of header and payloads return: the client has
\* written frame r (and, for a truncated frame, closed the connection)
HandleRecvFrame(r) ==
    /\ pc["handler"] = "hc_recv_wait"
    /\ client_sock \in cmdPeer
    /\ ~(platform = "win32" /\ client_sock \notin cmdOpen)
    /\ IF r.magic /\ r.complete
       THEN /\ req' = r
            /\ UNCHANGED <<respTried, execRet, lastResp, lastAck>>
            /\ Goto("handler", "hc_dispatch")
       ELSE LeaveSession
    /\ cmdPeer' = IF r.complete THEN cmdPeer ELSE cmdPeer \ {client_sock}
    /\ UNCHANGED <<platform, frame, fsVars, cmd_running, stream_running, cmd_server_open,
                   stream_server_open, client_sock_field, client_sock, cmdOpen,
                   cmdAccepted, cmdBacklog, closeRet, procVars, cancelled, produced,
                   sinkVars, strVars>>

\* the blocked recvAll returns false: end of stream or error
HandleRecvFail ==
    /\ pc["handler"] = "hc_recv_wait"
    /\ RecvWoken
    /\ LeaveSession
    /\ UNCHANGED <<platform, frame, fsVars, connVars, closeRet, procVars, cancelled, produced,
                   sinkVars, strVars>>

\* the cwd / directory / file cases: computed on the handler thread alone
DispatchFs ==
    /\ pc["handler"] = "hc_dispatch"
    /\ req.instr \in FsInstructions
    /\ Goto("handler", "hc_respond")
    /\ UNCHANGED <<platform, frame, fsVars, connVars, reqVars, closeRet, procVars, cancelled, produced,
                   sinkVars, strVars>>

(***************************************************************************)
(* The std::filesystem and fstream calls of the directory and file cases,   *)
(* on a filesystem f.                                                       *)
(***************************************************************************)

\* The node an absolute path names.  posix looks every component up; win32
\* removes "." and ".." from the path before it looks anything up.
Locate(f, p) ==
    IF platform = "win32" THEN {Normal(p.parts, <<>>)} ELSE Walk(f, p.parts, <<>>)

\* fs::exists(target, ec)
exists(f, p) == \E n \in Locate(f, p) : n \in DOMAIN f

\* fs::is_directory(target, ec)
is_directory(f, p) == \E n \in Locate(f, p) : IsDirAt(f, n)

\* fs::create_directory(q, ec): one mkdir.  An existing directory is no error.
create_directory(f, q) ==
    IF \E n \in Locate(f, q) : n \notin DOMAIN f /\ IsDirAt(f, ParentNode(n))
    THEN [fs |-> WithEntry(f, CHOOSE n \in Locate(f, q) : TRUE, Directory),
          created |-> TRUE, err |-> FALSE]
    ELSE [fs |-> f, created |-> FALSE, err |-> ~is_directory(f, q)]

RECURSIVE Anchor(_, _, _)
\* length of the longest prefix of p that exists
Anchor(f, p, k) ==
    IF k = 0 \/ exists(f, Prefix(p, k)) THEN k ELSE Anchor(f, p, k - 1)

RECURSIVE MakeMissing(_, _, _, _)
\* create_directory on the prefixes of p from the k-th on; made is what the
\* last create_directory returned.  posix leaves out the prefixes that end in
\* "." or "..".
MakeMissing(f, p, k, made) ==
    IF k > Len(p.parts) THEN [fs |-> f, ok |-> made]
    ELSE IF platform = "posix" /\ p.parts[k] \in {".", ".."}
         THEN MakeMissing(f, p, k + 1, made)
    ELSE LET r == create_directory(f, Prefix(p, k))
         IN  IF r.err THEN [fs |-> r.fs, ok |-> FALSE]
             ELSE MakeMissing(r.fs, p, k + 1, r.created)

\* fs::create_directories(p, ec).  The value is that of the last
\* create_directory.  win32 calls create_directory on every prefix of p, from
\* the shortest on.  posix answers false when p exists, and otherwise does so
\* on the prefixes beyond the longest one that exists.
create_directories(f, p) ==
    IF platform = "win32" THEN MakeMissing(f, p, 1, FALSE)
    ELSE IF exists(f, p) THEN [fs |-> f, ok |-> FALSE]
    ELSE LET k == Anchor(f, p, Len(p.parts))
         IN  IF ~is_directory(f, Prefix(p, k)) THEN [fs |-> f, ok |-> FALSE]
             ELSE MakeMissing(f, p, k + 1, FALSE)

\* the entries fs::remove_all(p, ec) removes: the node p names and all below it
Subtree(f, p) == {x \in DOMAIN f : \E n \in Locate(f, p) : Below(x, n)}

\* remove_all that removes the named entry and leaves what is below it
remove_top(f, p) ==
    LET gone == {x \in DOMAIN f : x \in Locate(f, p)}
    IN  [fs |-> [x \in DOMAIN f \ gone |-> f[x]], count |-> Cardinality(gone)]

\* fs::remove_all(p, ec), for a path whose last component is a name: the
\* number of entries removed, 0 when p names nothing
remove_all(f, p) ==
    [fs |-> [x \in DOMAIN f \ Subtree(f, p) |-> f[x]],
     count |-> Cardinality(Subtree(f, p))]

\* std::ofstream file(target, std::ios::binary) that keeps what the file held
ofstream_append(f, p, b) ==
    IF \E n \in Locate(f, p) : ~IsDirAt(f, n) /\ IsDirAt(f, ParentNode(n))
    THEN LET n == CHOOSE x \in Locate(f, p) : TRUE
         IN  [fs |-> WithEntry(f, n, RegularFile(
                        (IF IsFileAt(f, n) THEN f[n].data ELSE <<>>) \o b)),
              ok |-> TRUE]
    ELSE [fs |-> f, ok |-> FALSE]

\* std::ofstream file(target, std::ios::binary); file.write(p1): the file is
\* created or truncated, then holds b; no file is opened on a directory or in
\* a directory that does not exist
ofstream(f, p, b) ==
    IF \E n \in Locate(f, p) : ~IsDirAt(f, n) /\ IsDirAt(f, ParentNode(n))
    THEN [fs |-> WithEntry(f, CHOOSE n \in Locate(f, p) : TRUE, RegularFile(b)),
          ok |-> TRUE]
    ELSE [fs |-> f, ok |-> FALSE]

\* std::ifstream file(target, std::ios::binary): "file" when a regular file
\* is opened, "dir" when a directory is (posix opens it, and reading it then
\* fails), "none" when file.is_open() is false
ifstream(f, p) ==
    IF \E n \in Locate(f, p) : IsFileAt(f, n) THEN "file"
    ELSE IF platform = "posix" /\ is_directory(f, p) THEN "dir"
    ELSE "none"

\* the bytes istreambuf_iterator reads from an opened regular file
FileData(f, p) == f[CHOOSE n \in Locate(f, p) : TRUE].data

(***************************************************************************)
(* handleCommand: the directory and file cases.                             *)
(***************************************************************************)

\* the path / bool result / send steps every such case ends with
FsDone ==
    /\ Goto("handler", "hc_respond")
    /\ UNCHANGED <<platform, frame, connVars, reqVars, closeRet, procVars, cancelled, produced,
                   sinkVars, strVars>>

\* MOVE_CURRENT_WORKING_DIRECTORY that takes the target without looking at it
DispatchMoveCwdUnchecked ==
    /\ pc["handler"] = "hc_dispatch"
    /\ req.instr = INSTRUCTION_MOVE_CURRENT_WORKING_DIRECTORY
    /\ current_directory' = resolvePath(current_directory, req.p0)
    /\ result' = Flag(TRUE)
    /\ UNCHANGED fsys
    /\ FsDone

\* case INSTRUCTION_MOVE_CURRENT_WORKING_DIRECTORY: _current_directory becomes
\* target.string(), the resolved path as it is, when it names a directory
DispatchMoveCwd ==
    /\ pc["handler"] = "hc_dispatch"
    /\ req.instr = INSTRUCTION_MOVE_CURRENT_WORKING_DIRECTORY
    /\ LET target == resolvePath(current_directory, req.p0)
       IN  IF exists(fsys, target) /\ is_directory(fsys, target)
           THEN current_directory' = target /\ result' = Flag(TRUE)
           ELSE UNCHANGED current_directory /\ result' = Flag(FALSE)
    /\ UNCHANGED fsys
    /\ FsDone

\* case INSTRUCTION_CREATE_DIRECTORY
DispatchCreate ==
    /\ pc["handler"] = "hc_dispatch"
    /\ req.instr = INSTRUCTION_CREATE_DIRECTORY
    /\ LET made == create_directories(fsys, resolvePath(current_directory, req.p0))
       IN  fsys' = made.fs /\ result' = Flag(made.ok)
    /\ UNCHANGED current_directory
    /\ FsDone

\* REMOVE_DIRECTORY whose result tells whether more than the entry itself went
DispatchRemoveCountsBelow ==
    /\ pc["handler"] = "hc_dispatch"
    /\ req.instr = INSTRUCTION_REMOVE_DIRECTORY
    /\ LET gone == remove_all(fsys, resolvePath(current_directory, req.p0))
       IN  fsys' = gone.fs /\ result' = Flag(gone.count > 1)
    /\ UNCHANGED current_directory
    /\ FsDone

\* case INSTRUCTION_REMOVE_DIRECTORY: (fs::remove_all(target, ec) > 0) && !ec
DispatchRemove ==
    /\ pc["handler"] = "hc_dispatch"
    /\ req.instr = INSTRUCTION_REMOVE_DIRECTORY
    /\ LET gone == remove_all(fsys, resolvePath(current_directory, req.p0))
       IN  fsys' = gone.fs /\ result' = Flag(gone.count > 0)
    /\ UNCHANGED current_directory
    /\ FsDone

\* case INSTRUCTION_UPLOAD_FILE: the parent directories are created, whatever
\* comes of that, then the file is written
DispatchUpload ==
    /\ pc["handler"] = "hc_dispatch"
    /\ req.instr = INSTRUCTION_UPLOAD_FILE
    /\ LET target == resolvePath(current_directory, req.p0)
           made   == create_directories(fsys, parent_path(target))
           file   == ofstream(made.fs, target, req.p1)
       IN  fsys' = file.fs /\ result' = Flag(file.ok)
    /\ UNCHANGED current_directory
    /\ FsDone

\* DOWNLOAD_FILE that ends the session when the file cannot be opened
DispatchDownloadStrict ==
    /\ pc["handler"] = "hc_dispatch"
    /\ req.instr = INSTRUCTION_DOWNLOAD_FILE
    /\ LET target == resolvePath(current_directory, req.p0)
       IN  IF ifstream(fsys, target) = "file"
           THEN /\ result' = <<1>> \o FileData(fsys, target)
                /\ Goto("handler", "hc_respond")
           ELSE /\ result' = <<>>
                /\ Goto("handler", "hl_after")
    /\ UNCHANGED <<platform, frame, current_directory, fsys, connVars, reqVars, closeRet,
                   procVars, cancelled, produced, sinkVars, strVars>>

\* case INSTRUCTION_DOWNLOAD_FILE: the byte 0 when the file is not open, else
\* the byte 1 and the bytes read.  Reading an opened directory throws from the
\* stream buffer; nothing catches it, and the process is terminated.
DispatchDownload ==
    /\ pc["handler"] = "hc_dispatch"
    /\ req.instr = INSTRUCTION_DOWNLOAD_FILE
    /\ LET target == resolvePath(current_directory, req.p0)
           opened == ifstream(fsys, target)
       IN  CASE opened = "file" -> /\ result' = <<1>> \o FileData(fsys, target)
                                   /\ Goto("handler", "hc_respond")
             [] opened = "none" -> /\ result' = <<0>>
                                   /\ Goto("handler", "hc_respond")
             [] opened = "dir"  -> /\ result' = <<>>
                                   /\ pc' = [t \in Threads |-> "terminated"]
    /\ UNCHANGED <<platform, frame, current_directory, fsys, connVars, reqVars, closeRet,
                   procVars, cancelled, produced, sinkVars, strVars>>

\* RUN_COMMAND answered without await()
DispatchRunNoAwait ==
    /\ pc["handler"] = "hc_dispatch"
    /\ req.instr = INSTRUCTION_RUN_COMMAND
    /\ \E ret \in {-1, PROCESS_TOKEN} :
          /\ Execute("handler", ret, "hc_respond")
          /\ execRet' = ret
    /\ UNCHANGED <<platform, frame, fsVars, connVars, req, respTried, lastResp, lastAck, closeRet,
                   produced, sinkVars, strVars>>

\* case INSTRUCTION_RUN_COMMAND: execute(); if (pid != -1) await(pid);
DispatchRun ==
    /\ pc["handler"] = "hc_dispatch"
    /\ req.instr = INSTRUCTION_RUN_COMMAND
    /\ \E ret \in {-1, PROCESS_TOKEN} :
          /\ Execute("handler", ret, IF ret # -1 THEN "aw_join" ELSE "hc_respond")
          /\ execRet' = ret
    /\ UNCHANGED <<platform, frame, fsVars, connVars, req, respTried, lastResp, lastAck, closeRet,
                   produced, sinkVars, strVars>>

\* OPEN_PROCESS that tears the pipes down before execute() tests the guard
DispatchOpenTeardown ==
    /\ pc["handler"] = "hc_dispatch"
    /\ req.instr = INSTRUCTION_OPEN_PROCESS
    /\ IF ProcessRegistered
       THEN /\ execRet' = -1
            /\ Goto("handler", "hc_respond")
            /\ ClosePipes
            /\ UNCHANGED <<current_process_id, pid_field, joinable, alive, zombies,
                           signalled, pipebuf, wopen, cancelled>>
       ELSE \E ret \in {-1, PROCESS_TOKEN} :
               /\ Execute("handler", ret, "hc_respond")
               /\ execRet' = ret
    /\ UNCHANGED <<platform, frame, fsVars, connVars, req, respTried, lastResp, lastAck, closeRet,
                   produced, sinkVars, strVars>>

\* case INSTRUCTION_OPEN_PROCESS: proc_id = execute();
DispatchOpen ==
    /\ pc["handler"] = "hc_dispatch"
    /\ req.instr = INSTRUCTION_OPEN_PROCESS
    /\ \E ret \in {-1, PROCESS_TOKEN} :
          /\ Execute("handler", ret, "hc_respond")
          /\ execRet' = ret
    /\ UNCHANGED <<platform, frame, fsVars, connVars, req, respTried, lastResp, lastAck, closeRet,
                   produced, sinkVars, strVars>>

\* proc_id as CLOSE_PROCESS decodes it from payload 0
ParsedToken(r) == IF r.p0len >= TOKEN_SIZE THEN r.token ELSE -1

\* CLOSE_PROCESS that calls close() whatever the token
DispatchCloseAlways ==
    /\ pc["handler"] = "hc_dispatch"
    /\ req.instr = INSTRUCTION_CLOSE_PROCESS
    /\ Goto("handler", "cl_kill") /\ closeRet' = "hc_respond"
    /\ UNCHANGED <<platform, frame, fsVars, connVars, reqVars, procVars, cancelled, produced,
                   sinkVars, strVars>>

\* case INSTRUCTION_CLOSE_PROCESS: if (proc_id != -1) close(proc_id);
DispatchClose ==
    /\ pc["handler"] = "hc_dispatch"
    /\ req.instr = INSTRUCTION_CLOSE_PROCESS
    /\ IF ParsedToken(req) # -1
       THEN Goto("handler", "cl_kill") /\ closeRet' = "hc_respond"
       ELSE Goto("handler", "hc_respond") /\ UNCHANGED closeRet
    /\ UNCHANGED <<platform, frame, fsVars, connVars, reqVars, procVars, cancelled, produced,
                   sinkVars, strVars>>

\* default: break;  -- no response, back to the head of the loop
DispatchUnknown ==
    /\ pc["handler"] = "hc_dispatch"
    /\ req.instr \notin ServedInstructions
    /\ Goto("handler", "hc_loop")
    /\ UNCHANGED <<platform, frame, fsVars, connVars, reqVars, closeRet, procVars, cancelled, produced,
                   sinkVars, strVars>>

\* payload of the response frame of request r
ResponsePayload(r) ==
    CASE r.instr = INSTRUCTION_OPEN_PROCESS -> IF execRet = -1 THEN "token -1" ELSE "token 1"
      [] r.instr \in {INSTRUCTION_RUN_COMMAND, INSTRUCTION_CLOSE_PROCESS} -> "empty"
      [] OTHER -> "data"

\* what the client learns from the response of request r about close():
\* CLOSE_PROCESS is acknowledged whether or not close() was called
AckKind(r) ==
    CASE r.instr = INSTRUCTION_CLOSE_PROCESS ->
            IF ParsedToken(r) = -1 THEN "close_skipped" ELSE "close"
      [] OTHER -> "none"

\* sendAll(client_sock, &resp, ...) and sendAll of the payload
Respond ==
    /\ pc["handler"] = "hc_respond"
    /\ respTried' = IF respTried < 2 THEN respTried + 1 ELSE respTried
    /\ lastResp' = [instr |-> req.instr, payload |-> ResponsePayload(req)]
    /\ lastAck' = AckKind(req)
    /\ Goto("handler", "hc_loop")
    /\ UNCHANGED <<platform, frame, fsVars, connVars, req, execRet, closeRet, procVars, cancelled,
                   produced, sinkVars, strVars>>

(***************************************************************************)
(* RemoteProcess::stdoutReader / stderrReader (reader thread r).            *)
(***************************************************************************)

\* read(_stdout_read, ...) / ReadFile is entered: it fails at once when the
\* field holds no open descriptor, and blocks otherwise
ReaderReadCall(r) ==
    /\ pc[r] = "r_read_call"
    /\ Goto(r, IF pipes[r] THEN "r_read_wait" ELSE "r_done")
    /\ UNCHANGED <<platform, frame, fsVars, connVars, reqVars, closeRet, procVars, cancelled, produced,
                   sinkVars, strVars>>

\* the blocked read returns: n > 0 bytes, or 0 at end of file (no writer left
\* and nothing buffered), or (win32) the read was cancelled while it was
\* pending, which leaves in the pipe whatever is written afterwards
ReaderReadWait(r) ==
    /\ pc[r] = "r_read_wait"
    /\ \/ /\ pipebuf[r] # <<>>
          /\ ~cancelled[r]
          /\ rchunk' = [rchunk EXCEPT ![r] = Head(pipebuf[r])]
          /\ pipebuf' = [pipebuf EXCEPT ![r] = Tail(pipebuf[r])]
          /\ Goto(r, "r_lock")
          /\ UNCHANGED cancelled
       \/ /\ pipebuf[r] = <<>>
          /\ ~wopen[r]
          /\ Goto(r, "r_done")
          /\ UNCHANGED <<rchunk, pipebuf, cancelled>>
       \/ /\ platform = "win32"
          /\ cancelled[r]
          /\ cancelled' = [cancelled EXCEPT ![r] = FALSE]
          /\ Goto(r, "r_done")
          /\ UNCHANGED <<rchunk, pipebuf>>
    /\ UNCHANGED <<platform, frame, fsVars, connVars, reqVars, closeRet, current_process_id, pid_field,
                   pipes, joinable, alive, zombies, signalled, wopen, produced,
                   stream_sock, stream_mtx, rsock, strLast, delivered, strVars>>

\* a lock that is taken without waiting for its holder
LockNoWait(t) == stream_mtx' = t

\* std::lock_guard<std::mutex> lk(_stream_mtx): wait until the mutex is free
LockStreamMtx(t) ==
    /\ stream_mtx = "free"
    /\ stream_mtx' = t

ReaderLock(r) ==
    /\ pc[r] = "r_lock"
    /\ LockStreamMtx(r)
    /\ Goto(r, "r_send_hdr")
    /\ UNCHANGED <<platform, frame, fsVars, connVars, reqVars, closeRet, procVars, cancelled, produced,
                   stream_sock, rchunk, rsock, strLast, delivered, strVars>>

\* one write (sendAll) issued on a stream socket: header or payload of a chunk
Write(kind, r) == [kind |-> kind, type |-> StreamType(r), chunk |-> rchunk[r]]

\* sendAll(sock, ...) by reader r, who ignores what it returns and goes on at
\* l.  While the peer holds the connection the bytes are delivered.  Once the
\* peer has closed it, send() delivers nothing: it returns an error, or (posix,
\* first write after the close) reports success for bytes the peer resets; and
\* on posix a send() with flags 0 on a connection that was reset raises
\* SIGPIPE, which no code of the server handles or ignores: the process ends.
SendAll(r, kind, sock, l) ==
    \/ /\ sock \in strPeer
       /\ strLast' = [strLast EXCEPT ![sock] = Write(kind, r)]
       /\ delivered' = IF kind = "P"
                       THEN [delivered EXCEPT ![r] = Append(@, rchunk[r])]
                       ELSE delivered
       /\ Goto(r, l)
    \/ /\ sock \notin strPeer
       /\ UNCHANGED <<strLast, delivered>>
       /\ Goto(r, l)
    \/ /\ sock \notin strPeer
       /\ platform = "posix"
       /\ UNCHANGED <<strLast, delivered>>
       /\ pc' = [t \in Threads |-> "terminated"]

\* if (_stream_sock != INVALID_SOCK) sendStream(_stream_sock, ...): the header's
\* sendAll; with no socket installed the chunk is dropped and the lock released
ReaderSendHeader(r) ==
    /\ pc[r] = "r_send_hdr"
    /\ IF stream_sock # INVALID_SOCK
       THEN /\ rsock' = [rsock EXCEPT ![r] = stream_sock]
            /\ SendAll(r, "H", stream_sock, "r_send_payload")
            /\ UNCHANGED <<stream_mtx, rchunk>>
       ELSE /\ stream_mtx' = "free"
            /\ rchunk' = [rchunk EXCEPT ![r] = 0]
            /\ Goto(r, "r_read_call")
            /\ UNCHANGED <<rsock, strLast, delivered>>
    /\ UNCHANGED <<platform, frame, fsVars, connVars, reqVars, closeRet, procVars, cancelled, produced,
                   stream_sock, strVars>>

\* a payload send after which the reader goes back to read with the lock held
ReaderSendPayloadKeepsLock(r) ==
    /\ pc[r] = "r_send_payload"
    /\ SendAll(r, "P", rsock[r], "r_read_call")
    /\ rchunk' = [rchunk EXCEPT ![r] = 0]
    /\ rsock' = [rsock EXCEPT ![r] = INVALID_SOCK]
    /\ UNCHANGED <<platform, frame, fsVars, connVars, reqVars, closeRet, procVars, cancelled, produced,
                   stream_sock, stream_mtx, strVars>>

\* the payload's sendAll on the same socket; the lock_guard is then released
ReaderSendPayload(r) ==
    /\ pc[r] = "r_send_payload"
    /\ SendAll(r, "P", rsock[r], "r_read_call")
    /\ stream_mtx' = "free"
    /\ rchunk' = [rchunk EXCEPT ![r] = 0]
    /\ rsock' = [rsock EXCEPT ![r] = INVALID_SOCK]
    /\ UNCHANGED <<platform, frame, fsVars, connVars, reqVars, closeRet, procVars, cancelled, produced,
                   stream_sock, strVars>>

(***************************************************************************)
(* RemoteProcess::setStreamSocket and StreamServer::acceptLoop.             *)
(***************************************************************************)

\* a swap of the sink that does not take _stream_mtx
SetStreamSocketUnlocked(sock) ==
    /\ old_sock' = stream_sock
    /\ stream_sock' = sock

\* setStreamSocket(sock): under _stream_mtx, swap and return the old value
SetStreamSocket(sock) ==
    /\ stream_mtx = "free"
    /\ old_sock' = stream_sock
    /\ stream_sock' = sock

\* while (_running.load())
AcceptorLoop ==
    /\ pc["acceptor"] = "a_loop"
    /\ Goto("acceptor", IF stream_running THEN "a_accept_check" ELSE "a_clear")
    /\ UNCHANGED <<platform, frame, fsVars, connVars, reqVars, closeRet, procVars, cancelled, produced,
                   sinkVars, strVars>>

AcceptorAcceptCheck ==
    /\ pc["acceptor"] = "a_accept_check"
    /\ AcceptCheck("acceptor", stream_running, "a_accept_select", "a_clear")
    /\ UNCHANGED <<platform, frame, fsVars, connVars, reqVars, closeRet, procVars, cancelled, produced,
                   sinkVars, strVars>>

AcceptorAcceptSelect ==
    /\ pc["acceptor"] = "a_accept_select"
    /\ \/ /\ strBacklog = 0
          /\ Goto("acceptor", "a_accept_check")
          /\ UNCHANGED <<strOpen, strPeer, strAccepted, strBacklog, new_sock>>
       \/ /\ strBacklog > 0
          /\ strBacklog' = strBacklog - 1
          /\ strAccepted' = strAccepted + 1
          /\ new_sock' = strAccepted + 1
          /\ strOpen' = strOpen \cup {strAccepted + 1}
          /\ strPeer' = strPeer \cup {strAccepted + 1}
          /\ Goto("acceptor", "a_install")
       \/ \* accept() fails on the pending connection: continue
          /\ strBacklog > 0
          /\ strBacklog' = strBacklog - 1
          /\ Goto("acceptor", "a_accept_check")
          /\ UNCHANGED <<strOpen, strPeer, strAccepted, new_sock>>
    /\ UNCHANGED <<platform, frame, fsVars, connVars, reqVars, closeRet, procVars, cancelled, produced,
                   sinkVars, old_sock>>

\* sock_t old_sock = _remote_process.setStreamSocket(new_sock);
AcceptorInstall ==
    /\ pc["acceptor"] = "a_install"
    /\ SetStreamSocket(new_sock)
    /\ Goto("acceptor", "a_close_old")
    /\ UNCHANGED <<platform, frame, fsVars, connVars, reqVars, closeRet, procVars, cancelled, produced,
                   stream_mtx, rchunk, rsock, strLast, delivered, strOpen, strPeer, strAccepted,
                   strBacklog, new_sock>>

\* what was last written on a socket is of no concern once it is closed
Forget(sock) ==
    [s \in DOMAIN strLast |-> IF s = sock THEN NoWrite ELSE strLast[s]]

\* a loop body that drops the socket setStreamSocket returned without closing it
AcceptorDropOld ==
    /\ pc["acceptor"] = "a_close_old"
    /\ new_sock' = INVALID_SOCK
    /\ old_sock' = INVALID_SOCK
    /\ Goto("acceptor", "a_loop")
    /\ UNCHANGED <<platform, frame, fsVars, connVars, reqVars, closeRet, procVars, cancelled, produced,
                   sinkVars, strOpen, strPeer, strAccepted, strBacklog>>

\* if (old_sock != INVALID_SOCK) closeSocket(old_sock);  -- and the locals
\* new_sock and old_sock go out of scope at the end of the loop body
AcceptorCloseOld ==
    /\ pc["acceptor"] = "a_close_old"
    /\ strOpen' = strOpen \ {old_sock}
    /\ strLast' = Forget(old_sock)
    /\ UNCHANGED delivered
    /\ new_sock' = INVALID_SOCK
    /\ old_sock' = INVALID_SOCK
    /\ Goto("acceptor", "a_loop")
    /\ UNCHANGED <<platform, frame, fsVars, connVars, reqVars, closeRet, procVars, cancelled, produced,
                   stream_sock, stream_mtx, rchunk, rsock, strPeer, strAccepted,
                   strBacklog>>

\* on the way out: remaining = setStreamSocket(INVALID_SOCK);
AcceptorClear ==
    /\ pc["acceptor"] = "a_clear"
    /\ SetStreamSocket(INVALID_SOCK)
    /\ Goto("acceptor", "a_close_remaining")
    /\ UNCHANGED <<platform, frame, fsVars, connVars, reqVars, closeRet, procVars, cancelled, produced,
                   stream_mtx, rchunk, rsock, strLast, delivered, strOpen, strPeer, strAccepted,
                   strBacklog, new_sock>>

\* the acceptor leaves without closing the socket it took out
AcceptorLeakRemaining ==
    /\ pc["acceptor"] = "a_close_remaining"
    /\ Goto("acceptor", "a_done")
    /\ UNCHANGED <<platform, frame, fsVars, connVars, reqVars, closeRet, procVars, cancelled, produced,
                   sinkVars, strVars>>

\* if (remaining != INVALID_SOCK) closeSocket(remaining);
AcceptorCloseRemaining ==
    /\ pc["acceptor"] = "a_close_remaining"
    /\ strOpen' = strOpen \ {old_sock}
    /\ strLast' = Forget(old_sock)
    /\ UNCHANGED delivered
    /\ old_sock' = INVALID_SOCK
    /\ Goto("acceptor", "a_done")
    /\ UNCHANGED <<platform, frame, fsVars, connVars, reqVars, closeRet, procVars, cancelled, produced,
                   stream_sock, stream_mtx, rchunk, rsock, strPeer, strAccepted,
                   strBacklog, new_sock>>

(***************************************************************************)
(* Shutdown, run by the thread that owns the RemoteCommandServer object:    *)
(* its members are destroyed in reverse order of declaration, so            *)
(* CommandServer::close, then StreamServer::close, then ~RemoteProcess.     *)
(***************************************************************************)

\* the owner decides to shut the server down
MainShutdown ==
    /\ pc["main"] = "m_run"
    /\ Goto("main", "m_cmd_check")
    /\ UNCHANGED <<platform, frame, fsVars, connVars, reqVars, closeRet, procVars, cancelled, produced,
                   sinkVars, strVars>>

\* CommandServer::close: if (!_running.load()) return; _running.store(false);
CmdCloseCheck ==
    /\ pc["main"] = "m_cmd_check"
    /\ IF cmd_running
       THEN cmd_running' = FALSE /\ Goto("main", "m_cmd_wake")
       ELSE UNCHANGED cmd_running /\ Goto("main", "m_str_check")
    /\ UNCHANGED <<platform, frame, fsVars, stream_running, cmd_server_open, stream_server_open,
                   client_sock_field, client_sock, cmdOpen, cmdPeer, cmdAccepted,
                   cmdBacklog, reqVars, closeRet, procVars, cancelled, produced,
                   sinkVars, strVars>>

\* if (_client_sock != INVALID_SOCK) closeSocket(_client_sock);
CmdCloseWake ==
    /\ pc["main"] = "m_cmd_wake"
    /\ IF client_sock_field # INVALID_SOCK
       THEN cmdOpen' = cmdOpen \ {client_sock_field} /\ Goto("main", "m_cmd_clear")
       ELSE UNCHANGED cmdOpen /\ Goto("main", "m_cmd_join")
    /\ UNCHANGED <<platform, frame, fsVars, cmd_running, stream_running, cmd_server_open,
                   stream_server_open, client_sock_field, client_sock, cmdPeer,
                   cmdAccepted, cmdBacklog, reqVars, closeRet, procVars,
                   cancelled, produced, sinkVars, strVars>>

\* _client_sock = INVALID_SOCK;
CmdCloseClear ==
    /\ pc["main"] = "m_cmd_clear"
    /\ client_sock_field' = INVALID_SOCK
    /\ Goto("main", "m_cmd_join")
    /\ UNCHANGED <<platform, frame, fsVars, cmd_running, stream_running, cmd_server_open,
                   stream_server_open, client_sock, cmdOpen, cmdPeer, cmdAccepted,
                   cmdBacklog, reqVars, closeRet, procVars, cancelled, produced,
                   sinkVars, strVars>>

\* if (_handler.joinable()) _handler.join();
CmdCloseJoin ==
    /\ pc["main"] = "m_cmd_join"
    /\ pc["handler"] = "h_done"
    /\ pc' = [pc EXCEPT !["main"] = "m_cmd_listener", !["handler"] = "h_joined"]
    /\ UNCHANGED <<platform, frame, fsVars, connVars, reqVars, closeRet, procVars, cancelled, produced,
                   sinkVars, strVars>>

\* shutdown(_server_sock); closeSocket(_server_sock); _server_sock = INVALID_SOCK;
CmdCloseListener ==
    /\ pc["main"] = "m_cmd_listener"
    /\ cmd_server_open' = FALSE
    /\ cmdBacklog' = 0
    /\ Goto("main", "m_str_check")
    /\ UNCHANGED <<platform, frame, fsVars, cmd_running, stream_running, stream_server_open,
                   client_sock_field, client_sock, cmdOpen, cmdPeer, cmdAccepted,
                   reqVars, closeRet, procVars, cancelled, produced, sinkVars, strVars>>

\* StreamServer::close: if (!_running.load()) return; _running.store(false);
StrCloseCheck ==
    /\ pc["main"] = "m_str_check"
    /\ IF stream_running
       THEN stream_running' = FALSE /\ Goto("main", "m_str_join")
       ELSE UNCHANGED stream_running /\ Goto("main", "m_dtor")
    /\ UNCHANGED <<platform, frame, fsVars, cmd_running, cmd_server_open, stream_server_open,
                   client_sock_field, client_sock, cmdOpen, cmdPeer, cmdAccepted,
                   cmdBacklog, reqVars, closeRet, procVars, cancelled, produced,
                   sinkVars, strVars>>

\* if (_accepter.joinable()) _accepter.join();
StrCloseJoin ==
    /\ pc["main"] = "m_str_join"
    /\ pc["acceptor"] = "a_done"
    /\ pc' = [pc EXCEPT !["main"] = "m_str_listener", !["acceptor"] = "a_joined"]
    /\ UNCHANGED <<platform, frame, fsVars, connVars, reqVars, closeRet, procVars, cancelled, produced,
                   sinkVars, strVars>>

\* closeSocket(_server_sock); _server_sock = INVALID_SOCK;
StrCloseListener ==
    /\ pc["main"] = "m_str_listener"
    /\ stream_server_open' = FALSE
    /\ strBacklog' = 0
    /\ Goto("main", "m_dtor")
    /\ UNCHANGED <<platform, frame, fsVars, cmd_running, stream_running, cmd_server_open,
                   client_sock_field, client_sock, cmdOpen, cmdPeer, cmdAccepted,
                   cmdBacklog, reqVars, closeRet, procVars, cancelled, produced,
                   sinkVars, strOpen, strPeer, strAccepted, new_sock, old_sock>>

\* ~RemoteProcess: if (_current_process_id != -1) close(_current_process_id);
DtorCheck ==
    /\ pc["main"] = "m_dtor"
    /\ IF ProcessRegistered
       THEN Goto("main", "cl_kill") /\ closeRet' = "m_dtor_pipes"
       ELSE Goto("main", "m_dtor_pipes") /\ UNCHANGED closeRet
    /\ UNCHANGED <<platform, frame, fsVars, connVars, reqVars, procVars, cancelled, produced,
                   sinkVars, strVars>>

\* ~RemoteProcess: closePipes();
DtorPipes ==
    /\ pc["main"] = "m_dtor_pipes"
    /\ ClosePipes
    /\ Goto("main", "m_done")
    /\ UNCHANGED <<platform, frame, fsVars, connVars, reqVars, closeRet, current_process_id, pid_field,
                   joinable, alive, zombies, signalled, pipebuf, wopen, cancelled,
                   produced, sinkVars, strVars>>

(***************************************************************************)
(* Environment: the client and the child process.                           *)
(***************************************************************************)

\* the command connection the handler is serving, as the client sees it
ClientConnected == cmdAccepted > 0 /\ cmdAccepted \in cmdPeer

\* the client opens a command connection (at most n in one run)
ClientConnect(n) ==
    /\ cmd_server_open
    /\ cmdBacklog = 0
    /\ cmdAccepted < n
    /\ cmdBacklog' = 1
    /\ UNCHANGED <<platform, frame, fsVars, pc, cmd_running, stream_running, cmd_server_open,
                   stream_server_open, client_sock_field, client_sock, cmdOpen, cmdPeer,
                   cmdAccepted, reqVars, closeRet, procVars, cancelled, produced,
                   sinkVars, strVars>>

\* the same, by a client that holds one command connection at a time
ClientReconnect(n) ==
    /\ ~ClientConnected
    /\ ClientConnect(n)

\* the client closes its command connection
ClientDisconnect ==
    /\ ClientConnected
    /\ cmdPeer' = cmdPeer \ {cmdAccepted}
    /\ UNCHANGED <<platform, frame, fsVars, pc, cmd_running, stream_running, cmd_server_open,
                   stream_server_open, client_sock_field, client_sock, cmdOpen,
                   cmdAccepted, cmdBacklog, reqVars, closeRet, procVars,
                   cancelled, produced, sinkVars, strVars>>

\* the client opens a stream connection (at most n in one run)
StreamConnect(n) ==
    /\ stream_server_open
    /\ strBacklog = 0
    /\ strAccepted < n
    /\ strBacklog' = 1
    /\ UNCHANGED <<platform, frame, fsVars, pc, connVars, reqVars, closeRet, procVars, cancelled,
                   produced, sinkVars, strOpen, strPeer, strAccepted, new_sock, old_sock>>

\* the client closes stream connection s, or the connection is reset
StreamDisconnect(s) ==
    /\ s \in strPeer
    /\ strPeer' = strPeer \ {s}
    /\ UNCHANGED <<platform, frame, fsVars, pc, connVars, reqVars, closeRet, procVars, cancelled,
                   produced, sinkVars, strOpen, strAccepted, strBacklog, new_sock,
                   old_sock>>

\* the registered child writes a chunk to its stdout or stderr (at most n
\* chunks per pipe in one run)
ChildWrite(r, n) ==
    /\ pid_field \in alive
    /\ wopen[r]
    /\ produced[r] < n
    /\ produced' = [produced EXCEPT ![r] = @ + 1]
    /\ pipebuf' = [pipebuf EXCEPT ![r] = Append(@, produced[r] + 1)]
    /\ UNCHANGED <<platform, frame, fsVars, pc, connVars, reqVars, closeRet, current_process_id,
                   pid_field, pipes, joinable, alive, zombies, signalled, wopen,
                   cancelled, sinkVars, strVars>>

\* the same, with at most n chunks written in one run over both pipes
ChildWriteSome(r, n) ==
    /\ produced["out"] + produced["err"] < n
    /\ ChildWrite(r, n)

\* the same, by a child that writes nothing more once it has been sent the
\* termination signal
ChildWriteUnsignalled(r, n) ==
    /\ pid_field \notin signalled
    /\ ChildWrite(r, n)

\* What the child writes at once in the byte-counting runs: one byte less
\* and one byte more than a reader's buffer holds.
BurstSizes == {sizeof_buf - 1, sizeof_buf + 1}

\* The bytes of a pipe are numbered from 0 in the order they are written; a run
\* is len consecutive bytes, the first one numbered first.
Run(first, len) == [first |-> first, len |-> len]

\* read(fd, buf, sizeof(buf)) / ReadFile(h, buf, sizeof(buf), ...) on a pipe
\* that holds the run (first, len): each call returns what is there, up to
\* sizeof(buf) bytes; the sequence of what successive calls return
RECURSIVE Reads(_, _)
Reads(first, len) ==
    IF len = 0 THEN <<>>
    ELSE IF len <= sizeof_buf THEN <<Run(first, len)>>
    ELSE <<Run(first, sizeof_buf)>> \o Reads(first + sizeof_buf, len - sizeof_buf)

\* the number of bytes in a pipe whose pending reads are q
RECURSIVE Buffered(_)
Buffered(q) == IF q = <<>> THEN 0 ELSE Head(q).len + Buffered(Tail(q))

\* a pipe that hands out what was written last before what was written first
ChildWriteBytesInFront(r, n, max) ==
    /\ pid_field \in alive
    /\ wopen[r]
    /\ produced[r] + n <= max
    /\ produced' = [produced EXCEPT ![r] = @ + n]
    /\ pipebuf' = [pipebuf EXCEPT ![r] = Reads(produced[r], n) \o @]
    /\ UNCHANGED <<platform, frame, fsVars, pc, connVars, reqVars, closeRet, current_process_id,
                   pid_field, pipes, joinable, alive, zombies, signalled, wopen,
                   cancelled, sinkVars, strVars>>

\* the registered child writes n bytes to its stdout or stderr (at most max
\* bytes per pipe in one run); they follow the bytes that are still unread
ChildWriteBytes(r, n, max) ==
    /\ pid_field \in alive
    /\ wopen[r]
    /\ produced[r] + n <= max
    /\ produced' = [produced EXCEPT ![r] = @ + n]
    /\ pipebuf' = [pipebuf EXCEPT ![r] =
                      Reads(produced[r] - Buffered(@), Buffered(@) + n)]
    /\ UNCHANGED <<platform, frame, fsVars, pc, connVars, reqVars, closeRet, current_process_id,
                   pid_field, pipes, joinable, alive, zombies, signalled, wopen,
                   cancelled, sinkVars, strVars>>

\* the registered child closes its stdout or stderr and keeps running
ChildCloseOutput(r) ==
    /\ pid_field \in alive
    /\ wopen[r]
    /\ wopen' = [wopen EXCEPT ![r] = FALSE]
    /\ UNCHANGED <<platform, frame, fsVars, pc, connVars, reqVars, closeRet, current_process_id,
                   pid_field, pipes, joinable, alive, zombies, signalled, pipebuf,
                   cancelled, produced, sinkVars, strVars>>

\* a supervisor that follows the child's life: the exit of the registered
\* child resets _current_process_id
ChildExitDeregisters(p) ==
    /\ p \in alive
    /\ alive' = alive \ {p}
    /\ zombies' = zombies \cup {p}
    /\ wopen' = IF p = pid_field THEN [r \in Readers |-> FALSE] ELSE wopen
    /\ current_process_id' = IF p = pid_field THEN NO_PROCESS ELSE current_process_id
    /\ UNCHANGED <<platform, frame, fsVars, pc, connVars, reqVars, closeRet,
                   pid_field, pipes, joinable, signalled, pipebuf, cancelled, produced,
                   sinkVars, strVars>>

\* a child exits (by itself or because of the termination signal): the write
\* ends it held are closed
ChildExit(p) ==
    /\ p \in alive
    /\ alive' = alive \ {p}
    /\ zombies' = zombies \cup {p}
    /\ wopen' = IF p = pid_field THEN [r \in Readers |-> FALSE] ELSE wopen
    /\ UNCHANGED <<platform, frame, fsVars, pc, connVars, reqVars, closeRet, current_process_id,
                   pid_field, pipes, joinable, signalled, pipebuf, cancelled, produced,
                   sinkVars, strVars>>

(***************************************************************************)
(* The single-file server (remote_command_server.cpp): serverThread is the  *)
(* "handler" thread, server->running is cmd_running, command_client_sock is *)
(* client_sock_field and stream_client_sock is stream_sock.                 *)
(***************************************************************************)

\* serverThread: acceptWithSelect on the command listener, then on the stream
\* listener; both sockets are stored in the server and handleRequests starts
MonoAccept ==
    /\ pc["handler"] = "hl_loop"
    /\ cmd_running
    /\ cmdBacklog > 0
    /\ strBacklog > 0
    /\ cmdBacklog' = cmdBacklog - 1
    /\ cmdAccepted' = cmdAccepted + 1
    /\ cmdOpen' = cmdOpen \cup {cmdAccepted + 1}
    /\ cmdPeer' = cmdPeer \cup {cmdAccepted + 1}
    /\ client_sock_field' = cmdAccepted + 1
    /\ strBacklog' = strBacklog - 1
    /\ strAccepted' = strAccepted + 1
    /\ strOpen' = strOpen \cup {strAccepted + 1}
    /\ strPeer' = strPeer \cup {strAccepted + 1}
    /\ stream_sock' = strAccepted + 1
    /\ Goto("handler", "mono_recv")
    /\ UNCHANGED <<platform, frame, fsVars, cmd_running, stream_running, cmd_server_open,
                   stream_server_open, client_sock, reqVars, closeRet, procVars,
                   cancelled, produced, stream_mtx, rchunk, rsock, strLast, delivered,
                   new_sock, old_sock>>

\* case INSTRUCTION_RUN_COMMAND: executeCommand(p0, stm_sock, ...) up to the
\* start of t_out and t_err, whose readPipe lambdas capture stream_sock by
\* value; when a pipe or the fork fails it returns and the response is sent
MonoExecute ==
    /\ pc["handler"] = "mono_recv"
    /\ ClientConnected
    /\ \/ /\ FreePids # {}
          /\ alive' = alive \cup {NewPid}
          /\ pid_field' = NewPid
          /\ pipes' = [stdin_write |-> FALSE, out |-> TRUE, err |-> TRUE]
          /\ pipebuf' = [r \in Readers |-> <<>>]
          /\ wopen' = [r \in Readers |-> TRUE]
          /\ joinable' = [r \in Readers |-> TRUE]
          /\ rsock' = [r \in Readers |-> stream_sock]
          /\ pc' = PcStarted("handler", "mono_wait")
          /\ UNCHANGED lastResp
       \/ /\ lastResp' = [instr |-> INSTRUCTION_RUN_COMMAND, payload |-> "none"]
          /\ UNCHANGED <<pc, alive, pid_field, pipes, pipebuf, wopen, joinable, rsock>>
    /\ UNCHANGED <<platform, frame, fsVars, connVars, req, execRet, respTried, lastAck, closeRet,
                   current_process_id, zombies, signalled, cancelled, produced,
                   stream_sock, stream_mtx, rchunk, strLast, delivered, strVars>>

\* readPipe: while ((n = read(fd, buf, sizeof(buf) - 1)) > 0); at end of file
\* the loop ends and close(fd) follows
MonoReadPipe(r) ==
    /\ pc[r] = "r_read_call"
    /\ \/ /\ pipebuf[r] # <<>>
          /\ rchunk' = [rchunk EXCEPT ![r] = Head(pipebuf[r])]
          /\ pipebuf' = [pipebuf EXCEPT ![r] = Tail(pipebuf[r])]
          /\ Goto(r, "r_send_hdr")
          /\ UNCHANGED pipes
       \/ /\ pipebuf[r] = <<>>
          /\ ~wopen[r]
          /\ pipes' = [pipes EXCEPT ![r] = FALSE]
          /\ Goto(r, "r_done")
          /\ UNCHANGED <<rchunk, pipebuf>>
    /\ UNCHANGED <<platform, frame, fsVars, connVars, reqVars, closeRet, current_process_id, pid_field,
                   joinable, alive, zombies, signalled, wopen, cancelled, produced,
                   stream_sock, stream_mtx, rsock, strLast, delivered, strVars>>

\* sendStream called from readPipe: sendAll(stream_sock, &header, ...)
MonoSendHeader(r) ==
    /\ pc[r] = "r_send_hdr"
    /\ SendAll(r, "H", rsock[r], "r_send_payload")
    /\ UNCHANGED <<platform, frame, fsVars, connVars, reqVars, closeRet, procVars, cancelled, produced,
                   stream_sock, stream_mtx, rchunk, rsock, strVars>>

\* sendAll(stream_sock, data, len); the loop goes back to read
MonoSendPayload(r) ==
    /\ pc[r] = "r_send_payload"
    /\ SendAll(r, "P", rsock[r], "r_read_call")
    /\ rchunk' = [rchunk EXCEPT ![r] = 0]
    /\ UNCHANGED <<platform, frame, fsVars, connVars, reqVars, closeRet, procVars, cancelled, produced,
                   stream_sock, stream_mtx, rsock, strVars>>

\* waitpid(pid, ...); t_out.join(); t_err.join(); then the empty response
MonoWait ==
    /\ pc["handler"] = "mono_wait"
    /\ pid_field \in zombies
    /\ \A r \in Readers : pc[r] = "r_done"
    /\ zombies' = zombies \ {pid_field}
    /\ pid_field' = -1
    /\ joinable' = [r \in Readers |-> FALSE]
    /\ pc' = PcJoined("handler", "mono_recv")
    /\ lastResp' = [instr |-> INSTRUCTION_RUN_COMMAND, payload |-> "none"]
    /\ UNCHANGED <<platform, frame, fsVars, connVars, req, execRet, respTried, lastAck, closeRet,
                   current_process_id, pipes, alive, signalled, pipebuf, wopen,
                   cancelled, produced, sinkVars, strVars>>

\* recvAll fails in handleRequests; serverThread closes both client sockets,
\* resets the two fields and loops
MonoEndSession ==
    /\ pc["handler"] = "mono_recv"
    /\ ~ClientConnected
    /\ cmdOpen' = cmdOpen \ {client_sock_field}
    /\ client_sock_field' = INVALID_SOCK
    /\ strOpen' = strOpen \ {stream_sock}
    /\ strLast' = Forget(stream_sock)
    /\ UNCHANGED delivered
    /\ stream_sock' = INVALID_SOCK
    /\ lastResp' = NoResp
    /\ Goto("handler", "hl_loop")
    /\ UNCHANGED <<platform, frame, fsVars, cmd_running, stream_running, cmd_server_open,
                   stream_server_open, client_sock, cmdPeer, cmdAccepted, cmdBacklog,
                   req, execRet, respTried, lastAck, closeRet, procVars, cancelled,
                   produced, stream_mtx, rchunk, rsock, strPeer, strAccepted,
                   strBacklog, new_sock, old_sock>>

(***************************************************************************)
(* Specifications.                                                          *)
(*                                                                          *)
(* Spec: the dispatcher, the supervisor, the reader threads, the child and  *)
(* a client that sends every kind of frame over MaxSessions connections.    *)
(* No stream client connects, so the readers find no sink installed.        *)
(***************************************************************************)
Next ==
    \/ HandlerLoop \/ HandlerAcceptCheck \/ HandlerAcceptSelect \/ HandlerStore
    \/ HandlerAfter \/ HandlerCloseSock \/ HandlerClear
    \/ HandleLoop \/ HandleRecvCall
    \/ \E r \in ClientRequests : HandleRecvFrame(r)
    \/ HandleRecvFail
    \/ DispatchFs \/ DispatchRun \/ DispatchOpen \/ DispatchClose \/ DispatchUnknown
    \/ Respond
    \/ AwaitJoin("handler") \/ AwaitReap("handler")
    \/ \E t \in Callers : CloseKill(t)
    \/ \E t \in Callers : CloseCancel(t)
    \/ \E t \in Callers : ClosePipesStep(t)
    \/ \E t \in Callers : CloseJoin(t)
    \/ \E t \in Callers : CloseReap(t)
    \/ \E r \in Readers : ReaderReadCall(r)
    \/ \E r \in Readers : ReaderReadWait(r)
    \/ \E r \in Readers : ReaderLock(r)
    \/ \E r \in Readers : ReaderSendHeader(r)
    \/ ClientConnect(MaxSessions)
    \/ ClientDisconnect
    \/ \E r \in Readers : ChildWriteSome(r, MaxChunks)
    \/ \E r \in Readers : ChildCloseOutput(r)
    \/ \E p \in 1..MaxPid : ChildExit(p)

Spec == Init /\ [][Next]_vars

(***************************************************************************)
(* SpecStream: one command connection on which processes are opened and     *)
(* closed, the reader threads writing to the stream sink, and the acceptor  *)
(* thread replacing the sink over MaxStreams stream connections.            *)
(***************************************************************************)
NextStream ==
    \/ HandlerLoop \/ HandlerAcceptCheck \/ HandlerAcceptSelect \/ HandlerStore
    \/ HandleLoop \/ HandleRecvCall
    \/ \E r \in StreamRequests : HandleRecvFrame(r)
    \/ DispatchOpen \/ DispatchClose
    \/ Respond
    \/ CloseKill("handler") \/ CloseCancel("handler") \/ ClosePipesStep("handler")
    \/ CloseJoin("handler") \/ CloseReap("handler")
    \/ \E r \in Readers : ReaderReadCall(r)
    \/ \E r \in Readers : ReaderReadWait(r)
    \/ \E r \in Readers : ReaderLock(r)
    \/ \E r \in Readers : ReaderSendHeader(r)
    \/ \E r \in Readers : ReaderSendPayload(r)
    \/ AcceptorLoop \/ AcceptorAcceptCheck \/ AcceptorAcceptSelect
    \/ AcceptorInstall \/ AcceptorCloseOld
    \/ ClientReconnect(OneSession)
    \/ StreamConnect(MaxStreams)
    \/ \E r \in Readers : ChildWrite(r, MaxChunks)
    \/ \E p \in 1..MaxPid : ChildExit(p)

SpecStream == Init /\ [][NextStream]_vars

(***************************************************************************)
(* SpecPeer: SpecStream with a stream client that may close any of its      *)
(* connections at any moment, and a child that stops writing once close()   *)
(* has signalled it.                                                        *)
(***************************************************************************)
NextPeer ==
    \/ HandlerLoop \/ HandlerAcceptCheck \/ HandlerAcceptSelect \/ HandlerStore
    \/ HandleLoop \/ HandleRecvCall
    \/ \E r \in StreamRequests : HandleRecvFrame(r)
    \/ DispatchOpen \/ DispatchClose
    \/ Respond
    \/ CloseKill("handler") \/ CloseCancel("handler") \/ ClosePipesStep("handler")
    \/ CloseJoin("handler") \/ CloseReap("handler")
    \/ \E r \in Readers : ReaderReadCall(r)
    \/ \E r \in Readers : ReaderReadWait(r)
    \/ \E r \in Readers : ReaderLock(r)
    \/ \E r \in Readers : ReaderSendHeader(r)
    \/ \E r \in Readers : ReaderSendPayload(r)
    \/ AcceptorLoop \/ AcceptorAcceptCheck \/ AcceptorAcceptSelect
    \/ AcceptorInstall \/ AcceptorCloseOld
    \/ ClientReconnect(OneSession)
    \/ StreamConnect(MaxStreams)
    \/ \E s \in 1..MaxStreams : StreamDisconnect(s)
    \/ \E r \in Readers : ChildWriteUnsignalled(r, MaxChunks)
    \/ \E p \in 1..MaxPid : ChildExit(p)

SpecPeer == Init /\ [][NextPeer]_vars

(***************************************************************************)
(* SpecShutdown: the owner shuts the server down at any moment of a         *)
(* session in which children are started and a stream client is connected.  *)
(***************************************************************************)
NextShutdown ==
    \/ HandlerLoop \/ HandlerAcceptCheck \/ HandlerAcceptSelect \/ HandlerStore
    \/ HandlerAfter \/ HandlerCloseSock \/ HandlerClear
    \/ HandleLoop \/ HandleRecvCall
    \/ \E r \in SpawnRequests : HandleRecvFrame(r)
    \/ HandleRecvFail
    \/ DispatchRun \/ DispatchOpen
    \/ Respond
    \/ AwaitJoin("handler") \/ AwaitReap("handler")
    \/ \E t \in Callers : CloseKill(t)
    \/ \E t \in Callers : CloseCancel(t)
    \/ \E t \in Callers : ClosePipesStep(t)
    \/ \E t \in Callers : CloseJoin(t)
    \/ \E t \in Callers : CloseReap(t)
    \/ \E r \in Readers : ReaderReadCall(r)
    \/ \E r \in Readers : ReaderReadWait(r)
    \/ \E r \in Readers : ReaderLock(r)
    \/ \E r \in Readers : ReaderSendHeader(r)
    \/ \E r \in Readers : ReaderSendPayload(r)
    \/ AcceptorLoop \/ AcceptorAcceptCheck \/ AcceptorAcceptSelect
    \/ AcceptorInstall \/ AcceptorCloseOld \/ AcceptorClear \/ AcceptorCloseRemaining
    \/ MainShutdown \/ CmdCloseCheck \/ CmdCloseWake \/ CmdCloseClear \/ CmdCloseJoin
    \/ CmdCloseListener \/ StrCloseCheck \/ StrCloseJoin \/ StrCloseListener
    \/ DtorCheck \/ DtorPipes
    \/ ClientReconnect(OneSession)
    \/ ClientDisconnect
    \/ StreamConnect(ShutdownStreams)
    \/ ChildWrite("out", MaxChunks)
    \/ \E p \in 1..MaxPid : ChildExit(p)

SpecShutdown == Init /\ [][NextShutdown]_vars

(***************************************************************************)
(* SpecLive: the runs of SpecShutdown, with a stream client that may close  *)
(* its connection at any moment, under the fairness that the scheduler      *)
(* gives: every thread of the server that can take a step eventually takes  *)
(* one, and a child that TerminateProcess was called on ends.  Nothing is   *)
(* assumed of the client, of the owner's decision to shut down, or of a     *)
(* child that was sent SIGTERM: it may catch the signal or ignore it.       *)
(***************************************************************************)
NextLive ==
    \/ NextShutdown
    \/ \E s \in 1..ShutdownStreams : StreamDisconnect(s)


\* the steps of the handler thread; recvAll returns a frame only when the
\* client sends one, so that step is the client's
HandlerNext ==
    \/ HandlerLoop \/ HandlerAcceptCheck \/ HandlerAcceptSelect \/ HandlerStore
    \/ HandlerAfter \/ HandlerCloseSock \/ HandlerClear
    \/ HandleLoop \/ HandleRecvCall \/ HandleRecvFail
    \/ DispatchRun \/ DispatchOpen \/ Respond
    \/ AwaitJoin("handler") \/ AwaitReap("handler")
    \/ CloseKill("handler") \/ CloseCancel("handler") \/ ClosePipesStep("handler")
    \/ CloseJoin("handler") \/ CloseReap("handler")

\* the steps of reader thread r
ReaderNext(r) ==
    \/ ReaderReadCall(r) \/ ReaderReadWait(r) \/ ReaderLock(r)
    \/ ReaderSendHeader(r) \/ ReaderSendPayload(r)

\* the steps of the acceptor thread
AcceptorNext ==
    \/ AcceptorLoop \/ AcceptorAcceptCheck \/ AcceptorAcceptSelect
    \/ AcceptorInstall \/ AcceptorCloseOld \/ AcceptorClear \/ AcceptorCloseRemaining

\* the steps of the owner's thread once it has decided to shut down
MainNext ==
    \/ CmdCloseCheck \/ CmdCloseWake \/ CmdCloseClear \/ CmdCloseJoin
    \/ CmdCloseListener \/ StrCloseCheck \/ StrCloseJoin \/ StrCloseListener
    \/ DtorCheck \/ DtorPipes
    \/ CloseKill("main") \/ CloseCancel("main") \/ ClosePipesStep("main")
    \/ CloseJoin("main") \/ CloseReap("main")

\* TerminateProcess ends the child whatever the child does; SIGTERM does not
ChildTerminated(p) ==
    /\ platform = "win32"
    /\ p \in signalled
    /\ ChildExit(p)

SpecLive ==
    /\ Init /\ [][NextLive]_vars
    /\ WF_vars(HandlerNext)
    /\ \A r \in Readers : WF_vars(ReaderNext(r))
    /\ WF_vars(AcceptorNext)
    /\ WF_vars(MainNext)
    /\ \A p \in 1..MaxPid : WF_vars(ChildTerminated(p))

(***************************************************************************)
(* SpecRun: the two accept loops and the shutdown.  One command session of  *)
(* RUN_COMMAND requests whose children print nothing, while the acceptor    *)
(* installs and replaces the stream sink over MaxStreams connections and    *)
(* the owner shuts the server down at any moment; the server's threads are  *)
(* scheduled fairly.  Here close() of the supervisor is never reached: a    *)
(* child of RUN_COMMAND is awaited before anything else happens.            *)
(***************************************************************************)
NextRun ==
    \/ HandlerLoop \/ HandlerAcceptCheck \/ HandlerAcceptSelect \/ HandlerStore
    \/ HandlerAfter \/ HandlerCloseSock \/ HandlerClear
    \/ HandleLoop \/ HandleRecvCall
    \/ \E r \in RunRequests : HandleRecvFrame(r)
    \/ HandleRecvFail
    \/ DispatchRun
    \/ Respond
    \/ AwaitJoin("handler") \/ AwaitReap("handler")
    \/ \E r \in Readers : ReaderReadCall(r)
    \/ \E r \in Readers : ReaderReadWait(r)
    \/ AcceptorLoop \/ AcceptorAcceptCheck \/ AcceptorAcceptSelect
    \/ AcceptorInstall \/ AcceptorCloseOld \/ AcceptorClear \/ AcceptorCloseRemaining
    \/ MainShutdown \/ CmdCloseCheck \/ CmdCloseWake \/ CmdCloseClear \/ CmdCloseJoin
    \/ CmdCloseListener \/ StrCloseCheck \/ StrCloseJoin \/ StrCloseListener
    \/ DtorCheck \/ DtorPipes
    \/ ClientReconnect(OneSession)
    \/ ClientDisconnect
    \/ StreamConnect(MaxStreams)
    \/ \E p \in 1..MaxPid : ChildExit(p)

SpecRun ==
    /\ Init /\ [][NextRun]_vars
    /\ WF_vars(HandlerNext)
    /\ \A r \in Readers : WF_vars(ReaderNext(r))
    /\ WF_vars(AcceptorNext)
    /\ WF_vars(MainNext)

(***************************************************************************)
(* SpecBytes: RUN_COMMAND requests on one command connection, one stream     *)
(* connection, and children whose output is counted in bytes, so that a     *)
(* chunk is the run of bytes one read returned.                             *)
(***************************************************************************)
NextBytes ==
    \/ HandlerLoop \/ HandlerAcceptCheck \/ HandlerAcceptSelect \/ HandlerStore
    \/ HandleLoop \/ HandleRecvCall
    \/ \E r \in RunRequests : HandleRecvFrame(r)
    \/ DispatchRun
    \/ Respond
    \/ AwaitJoin("handler") \/ AwaitReap("handler")
    \/ \E r \in Readers : ReaderReadCall(r)
    \/ \E r \in Readers : ReaderReadWait(r)
    \/ \E r \in Readers : ReaderLock(r)
    \/ \E r \in Readers : ReaderSendHeader(r)
    \/ \E r \in Readers : ReaderSendPayload(r)
    \/ AcceptorLoop \/ AcceptorAcceptCheck \/ AcceptorAcceptSelect
    \/ AcceptorInstall \/ AcceptorCloseOld
    \/ ClientReconnect(OneSession)
    \/ StreamConnect(ShutdownStreams)
    \/ \E r \in Readers, n \in BurstSizes : ChildWriteBytes(r, n, MaxBytes)
    \/ \E p \in 1..MaxPid : ChildExit(p)

SpecBytes == Init /\ [][NextBytes]_vars

(***************************************************************************)
(* SpecMono: the single-file server serving RUN_COMMAND over MaxSessions    *)
(* sessions, each with its own stream connection, while the child writes to *)
(* both pipes.                                                              *)
(***************************************************************************)
NextMono ==
    \/ MonoAccept \/ MonoExecute \/ MonoWait \/ MonoEndSession
    \/ \E r \in Readers : MonoReadPipe(r) \/ MonoSendHeader(r) \/ MonoSendPayload(r)
    \/ ClientReconnect(MaxSessions) \/ ClientDisconnect
    \/ StreamConnect(MaxSessions)
    \/ \E r \in Readers : ChildWrite(r, MaxChunks) \/ ChildCloseOutput(r)
    \/ \E p \in 1..MaxPid : ChildExit(p)

SpecMono == Init /\ [][NextMono]_vars

(***************************************************************************)
(* SpecFs: one command session in which the client sends directory and file *)
(* requests.  The client keeps to paths of at most MaxDepth names below the *)
(* root and to working directories of at most MaxCwdLen components.         *)
(***************************************************************************)
FsSendable(r) ==
    r.instr \in PathInstructions =>
        LET target == resolvePath(current_directory, r.p0)
        IN  /\ Len(Normal(target.parts, <<>>)) <= MaxDepth
            /\ r.instr = INSTRUCTION_MOVE_CURRENT_WORKING_DIRECTORY
                  => Len(target.parts) <= MaxCwdLen

\* the client writes frame r, and the blocked recvAll calls return
ClientSend(r) == FsSendable(r) /\ HandleRecvFrame(r)

NextFs ==
    \/ HandlerLoop \/ HandlerAcceptCheck \/ HandlerAcceptSelect \/ HandlerStore
    \/ HandleLoop \/ HandleRecvCall
    \/ \E r \in FsRequests : ClientSend(r)
    \/ DispatchFs \/ DispatchMoveCwd \/ DispatchCreate \/ DispatchRemove
    \/ DispatchUpload \/ DispatchDownload
    \/ Respond
    \/ ClientReconnect(OneSession)

SpecFs == Init /\ [][NextFs]_vars

(***************************************************************************)
(* SpecCwd: the server opened with a working directory of the caller's, and *)
(* MaxSessions sessions in which the working directory is asked for and     *)
(* moved, directories are created and removed, and commands and processes   *)
(* are started; a session may end with a process still registered.          *)
(***************************************************************************)
NextCwd ==
    \/ HandlerLoop \/ HandlerAcceptCheck \/ HandlerAcceptSelect \/ HandlerStore
    \/ HandlerAfter \/ HandlerCloseSock \/ HandlerClear
    \/ HandleLoop \/ HandleRecvCall
    \/ \E r \in CwdRequests : ClientSend(r)
    \/ HandleRecvFail
    \/ DispatchFs \/ DispatchMoveCwd \/ DispatchCreate \/ DispatchRemove
    \/ DispatchRun \/ DispatchOpen
    \/ Respond
    \/ AwaitJoin("handler") \/ AwaitReap("handler")
    \/ CloseKill("handler") \/ CloseCancel("handler") \/ ClosePipesStep("handler")
    \/ CloseJoin("handler") \/ CloseReap("handler")
    \/ \E r \in Readers : ReaderReadCall(r)
    \/ \E r \in Readers : ReaderReadWait(r)
    \/ ClientReconnect(MaxSessions)
    \/ ClientDisconnect
    \/ \E p \in 1..MaxPid : ChildExit(p)

SpecCwd == InitOpen /\ [][NextCwd]_vars

(***************************************************************************)
(* SpecFrame: the response frames of LIST_DIRECTORY_CONTENTS and            *)
(* DOWNLOAD_FILE for directories and files of every size class, on a build  *)
(* whose size_t has 64 bits: a few entries or bytes, and the sizes around    *)
(* which a 32-bit length wraps.                                             *)
(***************************************************************************)

\* contents.size() of the listed directory / data.size() of the file read,
\* and whether the ifstream could be opened
FrameInputs ==
    {[instr |-> i, opened |-> o, size |-> Norm(h, l), sent |-> FALSE,
      payload_length |-> Norm(0, 0), written |-> Norm(0, 0)] :
        i \in {INSTRUCTION_LIST_DIRECTORY_CONTENTS, INSTRUCTION_DOWNLOAD_FILE},
        o \in BOOLEAN,
        h \in {0, 496, 65535, 65536},
        l \in {0, 1, 2, 3, 31774, 31775, 31776, 65532, 65533, 65534, 65535}}

InitFrame ==
    /\ InitServer
    /\ current_directory = InitialDirectory
    /\ fsys = InitialFiles
    /\ frame \in {f \in FrameInputs : f.instr = INSTRUCTION_LIST_DIRECTORY_CONTENTS => f.opened}

\* case INSTRUCTION_LIST_DIRECTORY_CONTENTS, from `uint32_t count` on:
\* payload_len = sizeof(uint32_t) + count * uint32_t(sizeof(entry)) is stored
\* in a uint32_t; count (4 bytes) and then count * sizeof(entry) bytes, a
\* size_t, are written
FrameList ==
    /\ frame.instr = INSTRUCTION_LIST_DIRECTORY_CONTENTS
    /\ ~frame.sent
    /\ LET count == Uint32(frame.size)
           bytes == Norm(count.hi * sizeof_RemoteDirectoryContentInner,
                         count.lo * sizeof_RemoteDirectoryContentInner)
           payload_len == Uint32(Norm(Uint32(bytes).hi, Uint32(bytes).lo + 4))
       IN  frame' = [frame EXCEPT !.sent = TRUE,
                                  !.payload_length = payload_len,
                                  !.written = Norm(bytes.hi, bytes.lo + 4)]
    /\ UNCHANGED <<platform, pc, connVars, reqVars, closeRet, procVars, cancelled, produced,
                   sinkVars, strVars, fsVars>>

\* case INSTRUCTION_DOWNLOAD_FILE: a file that cannot be opened is answered
\* with the one byte 0; otherwise payload_len = 1u + uint32_t(data.size()),
\* and the byte 1 and then data.size() bytes are written
FrameDownload ==
    /\ frame.instr = INSTRUCTION_DOWNLOAD_FILE
    /\ ~frame.sent
    /\ IF ~frame.opened
       THEN frame' = [frame EXCEPT !.sent = TRUE,
                                   !.payload_length = Norm(0, 1),
                                   !.written = Norm(0, 1)]
       ELSE LET payload_len == Uint32(Norm(Uint32(frame.size).hi, Uint32(frame.size).lo + 1))
            IN  frame' = [frame EXCEPT !.sent = TRUE,
                                       !.payload_length = payload_len,
                                       !.written = Norm(frame.size.hi, frame.size.lo + 1)]
    /\ UNCHANGED <<platform, pc, connVars, reqVars, closeRet, procVars, cancelled, produced,
                   sinkVars, strVars, fsVars>>

NextFrame ==
    \/ FrameList
    \/ FrameDownload

SpecFrame == InitFrame /\ [][NextFrame]_vars

(***************************************************************************)
(* Properties.                                                              *)
(***************************************************************************)

\* handler labels at which the dispatcher is inside close() for a request
CloseServingPcs == {"hc_dispatch", "cl_kill", "cl_cancel", "cl_pipes", "cl_join",
                    "cl_reap", "hc_respond"}

\* the step is taken by the handler thread
HandlerStep == pc'["handler"] # pc["handler"]

\* the supervisor state a rejected or skipped operation must leave alone
ChildUntouched ==
    /\ UNCHANGED <<current_process_id, pid_field, alive, zombies, signalled, joinable>>
    /\ \A r \in Readers : pc'[r] = pc[r]

\* C1: every request frame with a valid magic whose four payloads arrived has
\* received exactly one response when the dispatcher comes back to the head of
\* its loop to read the next request header: never zero responses, never two.
C1_OneResponsePerRequest ==
    /\ respTried <= 1
    /\ (pc["handler"] = "hc_loop" /\ req # NoReq) => respTried = 1

\* C2: at no time are two child processes alive.
C2_AtMostOneChild == Cardinality(alive) <= 1

\* a second OPEN_PROCESS was answered -1 while the first child is still alive
C2_Witness ==
    /\ Cardinality(alive) = 1
    /\ lastResp.instr = INSTRUCTION_OPEN_PROCESS
    /\ lastResp.payload = "token -1"

\* C3: on every stream socket a stream header is immediately followed by its
\* own payload.  From the header's write to the payload's write the last write
\* on that socket stays this header (the other reader writes nothing there),
\* the socket stays the installed one, and the next write is this payload.
C3_HeaderThenPayload ==
    [][\A r \in Readers :
          pc[r] = "r_send_payload"
          => /\ strLast[rsock[r]] = Write("H", r)
             /\ stream_sock = rsock[r]
             /\ stream_sock' = stream_sock
             /\ strLast'[rsock[r]] \in {Write("H", r), Write("P", r)}
             /\ pc'[r] # "r_send_payload" => strLast'[rsock[r]] = Write("P", r)]_vars

\* one reader is between its header and its payload on a stream socket
\* while the other reader waits for the mutex with a chunk of its own
\* and the acceptor waits to install a newer socket
C3_Witness ==
    \E r, q \in Readers :
       /\ r # q
       /\ pc[r] = "r_send_payload"
       /\ pc[q] = "r_lock"
       /\ strLast[rsock[r]] = Write("H", r)
       /\ pc["acceptor"] = "a_install"

\* C4: the response to a RUN_COMMAND that started a child is sent only after
\* the child has exited and been reaped, both reader threads have seen end of
\* file and been joined, and no chunk is left in a pipe or in a reader's hand.
C4_RunResponseAfterDrain ==
    (/\ execRet = PROCESS_TOKEN
     /\ \/ pc["handler"] = "hc_respond" /\ req.instr = INSTRUCTION_RUN_COMMAND
        \/ lastResp.instr = INSTRUCTION_RUN_COMMAND)
    => /\ alive = {} /\ zombies = {} /\ pid_field = -1
       /\ ~ProcessRegistered
       /\ \A r \in Readers : /\ pc[r] = "r_idle"
                             /\ ~joinable[r]
                             /\ ~wopen[r]
                             /\ pipebuf[r] = <<>>
                             /\ rchunk[r] = 0

\* a RUN_COMMAND whose child wrote to stderr has been answered
C4_Witness ==
    /\ lastResp.instr = INSTRUCTION_RUN_COMMAND
    /\ execRet = PROCESS_TOKEN
    /\ produced["err"] = MaxChunks

\* C5: once shutdown has returned, both listening sockets and every accepted
\* socket are closed, the handler, the acceptor and both reader threads have
\* been joined, and no child process is registered.
C5_ShutdownReleasesAll ==
    pc["main"] = "m_done"
    => /\ ~cmd_server_open /\ ~stream_server_open
       /\ cmdOpen = {} /\ strOpen = {}
       /\ pc["handler"] = "h_joined" /\ pc["acceptor"] = "a_joined"
       /\ \A r \in Readers : pc[r] = "r_idle" /\ ~joinable[r]
       /\ current_process_id = NO_PROCESS
       /\ alive = {} /\ zombies = {}

\* shutdown returned after a session that had a stream client and a child
\* whose output was read
C5_Witness ==
    /\ pc["main"] = "m_done"
    /\ cmdAccepted = OneSession
    /\ strAccepted = ShutdownStreams
    /\ produced["out"] = MaxChunks

\* C6: when CommandServer::close has closed the client socket while the
\* dispatcher is blocked in recv on a connected, idle client, that recv is
\* woken (so the dispatcher can leave and the join in close can return).
C6_CloseWakesRecv ==
    (/\ pc["main"] \in {"m_cmd_clear", "m_cmd_join"}
     /\ pc["handler"] = "hc_recv_wait"
     /\ client_sock \notin cmdOpen
     /\ client_sock \in cmdPeer)
    => RecvWoken

\* C7: OPEN_PROCESS while a process is registered returns -1 and leaves the
\* registered child, its pipes and the reader threads as they were.
C7_OpenWhileRunningRejected ==
    [][/\ (/\ pc["handler"] = "hc_dispatch"
           /\ req.instr = INSTRUCTION_OPEN_PROCESS
           /\ ProcessRegistered
           /\ HandlerStep)
          => (execRet' = -1 /\ ChildUntouched /\ UNCHANGED <<pipes, pipebuf, wopen>>)
       /\ (/\ pc["handler"] = "hc_respond"
           /\ req.instr = INSTRUCTION_OPEN_PROCESS
           /\ ProcessRegistered
           /\ execRet = -1
           /\ HandlerStep)
          => lastResp'.payload = "token -1"]_vars

\* the rejected OPEN_PROCESS has been answered and the first child still runs
C7_Witness ==
    /\ lastResp.instr = INSTRUCTION_OPEN_PROCESS
    /\ lastResp.payload = "token -1"
    /\ pid_field \in alive
    /\ \A r \in Readers : joinable[r] /\ pipes[r]

\* C8: CLOSE_PROCESS with token -1, with a payload shorter than four bytes, or
\* with no process registered sends no signal, leaves current_process_id as
\* it is (-1 when nothing is registered), joins and creates no thread, and
\* sends exactly one empty response.
C8_CloseNoop ==
    [][(/\ req.instr = INSTRUCTION_CLOSE_PROCESS
        /\ (ParsedToken(req) = -1 \/ ~ProcessRegistered)
        /\ pc["handler"] \in CloseServingPcs
        /\ HandlerStep)
       => /\ ChildUntouched
          /\ ParsedToken(req) = -1 => UNCHANGED pipes
          /\ pc'["handler"] \in CloseServingPcs \cup {"hc_loop"}
          /\ pc'["handler"] = "hc_loop" => /\ pc["handler"] = "hc_respond"
                                           /\ respTried = 0 /\ respTried' = 1
                                           /\ lastResp'.payload = "empty"]_vars

\* CLOSE_PROCESS with token -1 has been answered while a child is alive
C8_Witness ==
    /\ lastResp.instr = INSTRUCTION_CLOSE_PROCESS
    /\ lastResp.payload = "empty"
    /\ req.instr = INSTRUCTION_CLOSE_PROCESS
    /\ ParsedToken(req) = -1
    /\ pid_field \in alive

\* CLOSE_PROCESS with no process registered went through close() and was
\* answered
C8_WitnessIdle ==
    /\ lastResp.instr = INSTRUCTION_CLOSE_PROCESS
    /\ req.instr = INSTRUCTION_CLOSE_PROCESS
    /\ ParsedToken(req) = PROCESS_TOKEN
    /\ alive = {} /\ zombies = {} /\ signalled = {}
    /\ produced["out"] = 0

\* C9: CLOSE_PROCESS with a token other than -1 that is not the token of the
\* live process is a no-op: the live child is not signalled and stays
\* registered.
C9_CloseUnknownIdNoop ==
    (/\ req.instr = INSTRUCTION_CLOSE_PROCESS
     /\ ParsedToken(req) \notin {-1, PROCESS_TOKEN}
     /\ pc["handler"] \in CloseServingPcs)
    => (pid_field # -1 => pid_field \notin signalled)

\* C10 as stated: whenever the supervisor is idle no reader thread is
\* running, and an OPEN_PROCESS after an acknowledged CLOSE_PROCESS returns 1.
C10_Original ==
    /\ ~ProcessRegistered => \A r \in Readers : pc[r] = "r_idle" /\ ~joinable[r]
    /\ (/\ pc["handler"] = "hc_respond"
        /\ req.instr = INSTRUCTION_OPEN_PROCESS
        /\ lastAck \in {"close", "close_skipped"})
       => execRet = PROCESS_TOKEN

\* C10: both reader threads are joined before current_process_id is reset, so
\* whenever the supervisor is idle no reader thread is running; an
\* OPEN_PROCESS that follows an acknowledged CLOSE_PROCESS whose token was not
\* -1 finds the supervisor idle: it returns 1, or -1 with nothing registered
\* when the pipes or the child could not be created.
C10_JoinBeforeIdle ==
    /\ ~ProcessRegistered => \A r \in Readers : pc[r] = "r_idle" /\ ~joinable[r]
    /\ (/\ pc["handler"] = "hc_respond"
        /\ req.instr = INSTRUCTION_OPEN_PROCESS
        /\ lastAck = "close")
       => \/ execRet = PROCESS_TOKEN
          \/ execRet = -1 /\ ~ProcessRegistered

\* OPEN_PROCESS returned 1 right after a CLOSE_PROCESS that closed a child
C10_Witness ==
    /\ pc["handler"] = "hc_respond"
    /\ req.instr = INSTRUCTION_OPEN_PROCESS
    /\ lastAck = "close"
    /\ execRet = PROCESS_TOKEN
    /\ zombies = {}
    /\ Cardinality(alive) = 1

\* C11: a framing error on the command channel (bad magic, end of stream or
\* error while the header or a payload is read) ends the session at once: the
\* step that leaves the blocked read either hands a frame with a valid magic
\* and all its payloads to the dispatch, or returns from the dispatcher with
\* no response sent and no operation executed.
C11_FramingErrorEndsSession ==
    [][(pc["handler"] = "hc_recv_wait" /\ HandlerStep) =>
          \/ /\ pc'["handler"] = "hc_dispatch"
             /\ req'.magic /\ req'.complete
          \/ /\ pc'["handler"] = "hl_after"
             /\ respTried' = 0
             /\ lastResp' = NoResp
             /\ ChildUntouched
             /\ UNCHANGED <<pipes, closeRet>>]_vars

\* the dispatcher has returned while the server runs and the client is still
\* connected: the frame it read had a bad magic
C11_Witness ==
    /\ pc["handler"] = "hl_after"
    /\ cmd_running
    /\ client_sock \in cmdPeer
    /\ client_sock \in cmdOpen

\* C12: a request with a valid magic whose instruction is not one the
\* dispatcher serves closes the session: the step the dispatcher takes on it
\* leaves the request loop instead of going back to read the next request.
C12_UnknownInstructionClosesSession ==
    [][(/\ pc["handler"] = "hc_dispatch"
        /\ req.instr \notin ServedInstructions
        /\ HandlerStep) => pc'["handler"] = "hl_after"]_vars

\* the request being served is one whose operation failed: a directory or file
\* case with the flag or status byte 0, or a process case answered -1
FailedOperation ==
    \/ req.instr \in PathInstructions /\ Head(result) = 0
    \/ req.instr \in {INSTRUCTION_RUN_COMMAND, INSTRUCTION_OPEN_PROCESS} /\ execRet = -1

\* C13: an operation that fails is reported through its response payload and
\* nothing else: every directory or file case ends at the send of its
\* response with a payload, the send of a failure response keeps the session
\* and the server up, and the dispatcher then goes to read the next request.
C13_FailureStaysInPayload ==
    [][/\ (/\ pc["handler"] = "hc_dispatch"
           /\ req.instr \in PathInstructions
           /\ HandlerStep)
          => (pc'["handler"] = "hc_respond" /\ result' # <<>>)
       /\ (pc["handler"] = "hc_respond" /\ FailedOperation /\ HandlerStep)
          => /\ pc'["handler"] = "hc_loop"
             /\ respTried' = 1
             /\ cmd_running'
             /\ client_sock' \in cmdOpen'
       /\ (pc["handler"] = "hc_loop" /\ req # NoReq /\ cmd_running /\ HandlerStep)
          => pc'["handler"] = "hc_recv_call"]_vars

\* the handler is at the case of a MOVE_CURRENT_WORKING_DIRECTORY request
AtMoveCwd ==
    /\ pc["handler"] = "hc_dispatch"
    /\ req.instr = INSTRUCTION_MOVE_CURRENT_WORKING_DIRECTORY

\* the path the request being served names, resolved against the working directory
Target == resolvePath(current_directory, req.p0)

\* C14: MOVE_CURRENT_WORKING_DIRECTORY whose resolved target names nothing, or
\* something that is no directory, answers false and leaves the working
\* directory as it was; and no step other than the case of a
\* MOVE_CURRENT_WORKING_DIRECTORY changes the working directory, so the
\* CURRENT_WORKING_DIRECTORY that follows sends the previous value.
C14_FailedMoveKeepsCwd ==
    [][/\ (AtMoveCwd /\ HandlerStep /\ \A n \in Locate(fsys, Target) : ~IsDirAt(fsys, n))
          => (result' = <<0>> /\ current_directory' = current_directory)
       /\ ~AtMoveCwd => current_directory' = current_directory]_vars

\* a move to the name of a regular file has been refused in a working
\* directory that is not the initial one
C14_Witness ==
    /\ pc["handler"] = "hc_respond"
    /\ req.instr = INSTRUCTION_MOVE_CURRENT_WORKING_DIRECTORY
    /\ result = <<0>>
    /\ current_directory # InitialDirectory
    /\ \E n \in Locate(fsys, Target) : IsFileAt(fsys, n)

\* a move to a name that does not exist has been refused
C14_WitnessMissing ==
    /\ pc["handler"] = "hc_respond"
    /\ req.instr = INSTRUCTION_MOVE_CURRENT_WORKING_DIRECTORY
    /\ result = <<0>>
    /\ \A n \in Locate(fsys, Target) : n \notin DOMAIN fsys

\* C15: when MOVE_CURRENT_WORKING_DIRECTORY succeeds for a path p, the working
\* directory the next CURRENT_WORKING_DIRECTORY sends is the canonical form of
\* the previous working directory joined with p: absolute, and free of "."
\* and "..".
C15_MoveStoresCanonical ==
    [][(AtMoveCwd /\ HandlerStep /\ result' = <<1>>)
          => current_directory' = Canonical(Target)]_vars

\* the handler is at the case of a request with instruction i
AtCase(i) == pc["handler"] = "hc_dispatch" /\ req.instr = i

\* C16: an UPLOAD_FILE of path r and bytes b that answers true leaves at r a
\* regular file holding exactly b, whatever r held before (b empty included);
\* nothing but the case of a request changes the filesystem; and a
\* DOWNLOAD_FILE of a path that names a regular file answers the status byte 1
\* followed by exactly the bytes the file holds.  So the download that
\* follows a successful upload of b to r returns 1 and then b.
C16_UploadDownloadRoundTrip ==
    [][/\ (AtCase(INSTRUCTION_UPLOAD_FILE) /\ HandlerStep /\ result' = <<1>>)
          => \E n \in Locate(fsys', Target) :
                IsFileAt(fsys', n) /\ fsys'[n].data = req.p1
       /\ pc["handler"] # "hc_dispatch" => fsys' = fsys
       /\ (/\ AtCase(INSTRUCTION_DOWNLOAD_FILE)
           /\ HandlerStep
           /\ \E n \in Locate(fsys, Target) : IsFileAt(fsys, n))
          => /\ pc'["handler"] = "hc_respond"
             /\ \E n \in Locate(fsys, Target) : result' = <<1>> \o fsys[n].data]_vars

\* an upload of no bytes is about to replace a file that holds some
C16_WitnessReplace ==
    /\ AtCase(INSTRUCTION_UPLOAD_FILE)
    /\ req.p1 = <<>>
    /\ \E n \in Locate(fsys, Target) : IsFileAt(fsys, n) /\ fsys[n].data # <<>>

\* a file that was uploaded with no bytes has been downloaded: status 1 and
\* nothing after it
C16_Witness ==
    /\ pc["handler"] = "hc_respond"
    /\ req.instr = INSTRUCTION_DOWNLOAD_FILE
    /\ result = <<1>>

\* a file that was uploaded with bytes has been downloaded
C16_WitnessBytes ==
    /\ pc["handler"] = "hc_respond"
    /\ req.instr = INSTRUCTION_DOWNLOAD_FILE
    /\ result = <<1, 7>>

\* the path of the request names nothing a std::ifstream can open
CannotOpen ==
    \A n \in Locate(fsys, Target) :
        n \notin DOMAIN fsys \/ (platform = "win32" /\ IsDirAt(fsys, n))

\* C17: a DOWNLOAD_FILE of a path that cannot be opened is answered with one
\* response whose payload is the single byte 0; the session stays open and the
\* dispatcher goes on to read the next request.
C17_DownloadMissingAnswersZero ==
    [][/\ (AtCase(INSTRUCTION_DOWNLOAD_FILE) /\ HandlerStep /\ CannotOpen)
          => (pc'["handler"] = "hc_respond" /\ result' = <<0>>)
       /\ (/\ pc["handler"] = "hc_respond"
           /\ req.instr = INSTRUCTION_DOWNLOAD_FILE
           /\ result = <<0>>
           /\ HandlerStep)
          => /\ pc'["handler"] = "hc_loop"
             /\ respTried' = 1
             /\ lastResp'.instr = INSTRUCTION_DOWNLOAD_FILE
             /\ result' = <<0>>
             /\ client_sock' \in cmdOpen' \cap cmdPeer'
       /\ (/\ pc["handler"] = "hc_loop"
           /\ req.instr = INSTRUCTION_DOWNLOAD_FILE
           /\ HandlerStep)
          => pc'["handler"] = "hc_recv_call"]_vars

\* the download of a missing file has been answered with the byte 0 and the
\* dispatcher is back at the head of its loop
C17_Witness ==
    /\ pc["handler"] = "hc_loop"
    /\ req.instr = INSTRUCTION_DOWNLOAD_FILE
    /\ lastResp.instr = INSTRUCTION_DOWNLOAD_FILE
    /\ respTried = 1
    /\ result = <<0>>
    /\ client_sock \in cmdOpen

\* the path of the request names a directory that holds at least one entry
TargetNonEmptyDirectory ==
    \E n \in Locate(fsys, Target) :
        IsDirAt(fsys, n) /\ \E x \in DOMAIN fsys : x # n /\ Below(x, n)

C18_WitnessBefore ==
    /\ AtCase(INSTRUCTION_REMOVE_DIRECTORY)
    /\ TargetNonEmptyDirectory
    /\ \E x \in DOMAIN fsys :
          IsFileAt(fsys, x) /\ \A n \in Locate(fsys, Target) : ~Below(x, n)

TargetEmptyDirectory ==
    \E n \in Locate(fsys, Target) :
        IsDirAt(fsys, n) /\ \A x \in DOMAIN fsys : Below(x, n) => x = n

C19_WitnessNothing ==
    /\ pc["handler"] = "hc_respond"
    /\ req.instr = INSTRUCTION_REMOVE_DIRECTORY
    /\ result = <<0>>

\* C20: CREATE_DIRECTORY answers true exactly when a directory was created,
\* missing parents included; applied to a directory that exists it answers
\* false and leaves the filesystem as it was.
C20_CreateTrueIffCreated ==
    [][(AtCase(INSTRUCTION_CREATE_DIRECTORY) /\ HandlerStep)
          => /\ result' = <<1>> <=> fsys' # fsys
             /\ (\E n \in Locate(fsys, Target) : IsDirAt(fsys, n))
                   => (result' = <<0>> /\ fsys' = fsys)]_vars

\* the dispatcher leaves the switch with execute() having returned -1
SpawnRefused ==
    /\ pc["handler"] = "hc_dispatch"
    /\ req.instr \in {INSTRUCTION_RUN_COMMAND, INSTRUCTION_OPEN_PROCESS}
    /\ HandlerStep
    /\ execRet' = -1

\* C21: when execute() returns -1 the dispatcher goes straight to the response
\* without calling await(): OPEN_PROCESS answers the token -1 and RUN_COMMAND an
\* empty acknowledgement.  When the -1 comes from a failed pipe or fork (no
\* process was registered), the supervisor is idle afterwards: no process is
\* registered, no child was added, no reader thread runs or is joinable, and
\* no pipe descriptor is held.
C21_SpawnFailureAnswered ==
    [][ /\ SpawnRefused
           => /\ pc'["handler"] = "hc_respond"
              /\ ~ProcessRegistered
                    => /\ ~ProcessRegistered'
                       /\ alive' = alive
                       /\ pipes' = PipesClosed
                       /\ \A r \in Readers : pc'[r] = "r_idle" /\ ~joinable'[r]
        /\ (/\ pc["handler"] = "hc_respond"
            /\ HandlerStep
            /\ execRet = -1
            /\ req.instr \in {INSTRUCTION_RUN_COMMAND, INSTRUCTION_OPEN_PROCESS})
           => lastResp' = [instr |-> req.instr,
                           payload |-> IF req.instr = INSTRUCTION_OPEN_PROCESS
                                       THEN "token -1" ELSE "empty"]
      ]_vars

\* a RUN_COMMAND whose spawn failed after an earlier command had left its pipe
\* read ends open has been answered
C21_Witness ==
    /\ lastResp = [instr |-> INSTRUCTION_RUN_COMMAND, payload |-> "empty"]
    /\ execRet = -1
    /\ pc["handler"] = "hc_loop"
    /\ ~ProcessRegistered
    /\ pipes = PipesClosed
    /\ produced["out"] > 0

\* an OPEN_PROCESS whose spawn failed has been answered with the token -1
C21_WitnessOpen ==
    /\ lastResp = [instr |-> INSTRUCTION_OPEN_PROCESS, payload |-> "token -1"]
    /\ pc["handler"] = "hc_loop"
    /\ ~ProcessRegistered
    /\ alive = {}

\* the handler is inside await() for the child of a RUN_COMMAND
Awaiting == pc["handler"] \in {"aw_join", "aw_reap"}

\* C22: command processing does not depend on the stream sink.  Whatever the
\* acceptor does to the sink during a RUN_COMMAND (none installed, one
\* installed or replaced, the sink cleared), a reader that finds no socket
\* installed discards its chunk and goes back to read, a RUN_COMMAND is
\* answered only with both pipes drained, and once the child has exited the
\* RUN_COMMAND is eventually answered.
C22_CommandIndependentOfSink ==
    /\ [][ \A r \in Readers :
              (pc[r] = "r_send_hdr" /\ pc'[r] # pc[r] /\ stream_sock = INVALID_SOCK)
              => /\ pc'[r] = "r_read_call"
                 /\ rchunk'[r] = 0
                 /\ pipebuf' = pipebuf
                 /\ strLast' = strLast ]_vars
    /\ []((/\ pc["handler"] = "hc_respond"
            /\ req.instr = INSTRUCTION_RUN_COMMAND
            /\ execRet = PROCESS_TOKEN)
             => \A r \in Readers : pipebuf[r] = <<>> /\ rchunk[r] = 0)
    /\ (Awaiting /\ pid_field \notin alive)
          ~> (lastResp.instr = INSTRUCTION_RUN_COMMAND)

\* the socket reader r writes on at its next send, and the step of that send
WritingOn(r) == IF pc[r] = "r_send_hdr" THEN stream_sock ELSE rsock[r]
SendStep(r) ==
    /\ pc[r] \in {"r_send_hdr", "r_send_payload"}
    /\ pc'[r] # pc[r]
    /\ WritingOn(r) # INVALID_SOCK

\* C23: a write of a reader on a stream socket whose peer has closed it fails
\* silently: the reader goes on (to the payload send, then back to read with
\* the chunk dropped), no other thread, the child or the pipes are touched;
\* and a write on a socket whose peer is connected, such as a replacement
\* installed later, is delivered.
C23_WriteFailureDropsChunk ==
    [][ \A r \in Readers :
           SendStep(r) =>
              IF WritingOn(r) \in strPeer
              THEN strLast'[WritingOn(r)] =
                      Write(IF pc[r] = "r_send_hdr" THEN "H" ELSE "P", r)
              ELSE /\ pc'[r] \in {"r_send_payload", "r_read_call"}
                   /\ pc'[r] = "r_read_call" => rchunk'[r] = 0
                   /\ \A t \in Threads \ {r} : pc'[t] = pc[t]
                   /\ alive' = alive
                   /\ pipebuf' = pipebuf
                   /\ strLast' = strLast ]_vars

\* thread t is inside RemoteProcess::close
InClose(t) == pc[t] \in {"cl_kill", "cl_cancel", "cl_pipes", "cl_join", "cl_reap"}

\* C24: close() never leaves a reader blocked on a pipe read.  From every
\* state in which a thread is inside close() with the child alive, both
\* readers eventually leave their loops and are joined and close() returns;
\* and close() returns with the supervisor idle.
C24_CloseReturns ==
    /\ \A t \in Callers :
          (InClose(t) /\ pid_field \in alive)
             ~> (/\ ~InClose(t)
                 /\ \A r \in Readers : pc[r] \in {"r_idle", "terminated"})
    /\ [][ \A t \in Callers :
              (pc[t] = "cl_reap" /\ pc'[t] \notin {"cl_reap", "terminated"})
              => /\ ~ProcessRegistered'
                 /\ \A r \in Readers : pc'[r] = "r_idle" /\ ~joinable'[r] ]_vars

\* C25: on posix close() closes the pipe read ends, and overwrites the fields
\* that hold them, only after the readers have seen end of file: whenever a
\* reader's descriptor is closed while the reader thread has not been joined,
\* that reader has left its read loop.
C25_ReadEndsOutliveReaders ==
    platform = "posix"
    => \A r \in Readers : (joinable[r] /\ ~pipes[r]) => pc[r] = "r_done"

\* C26: teardown does not lose buffered output.  With a child that writes
\* nothing after close() has signalled it, every chunk in a pipe was written
\* before close() was called: when close() has joined the readers no chunk is
\* left in a pipe or in a reader's hand.
C26_CloseDrainsPipes ==
    [][ \A t \in Callers :
           (pc[t] = "cl_join" /\ pc'[t] \notin {"cl_join", "terminated"})
           => \A r \in Readers : pipebuf[r] = <<>> /\ rchunk[r] = 0 ]_vars

\* C27: when CommandServer::close() runs while the dispatcher is inside a
\* RUN_COMMAND, waiting in await() for a child that has not exited, the
\* dispatcher leaves its loop and the handler thread ends, so that close()
\* returns, whether or not the child ever exits.
C27_ShutdownInterruptsAwait ==
    (pc["main"] = "m_cmd_join" /\ Awaiting /\ pid_field \in alive)
       ~> (pc["handler"] \in {"h_done", "h_joined", "terminated"})

C28_WitnessPending ==
    /\ pc["acceptor"] = "a_install"
    /\ ~stream_running

\* the handler is inside select with running already false
C28_WitnessHandler ==
    /\ pc["handler"] = "hl_accept_select"
    /\ ~cmd_running
    /\ cmdBacklog = 0

\* the stream sockets the server holds: the installed one and the ones in the
\* acceptor's locals
HeldStreamSockets == {stream_sock, new_sock, old_sock} \ {INVALID_SOCK}

\* C29: in acceptLoop each accepted socket replaces the installed one, and the
\* socket that setStreamSocket returned is closed by the acceptor, once: the
\* close always finds it open, and it is never the installed one.  Every open
\* accepted stream socket is the installed one or in the acceptor's hands, so
\* at most one is installed and none is lost; and when the loop has exited no socket is installed and
\* every accepted socket is closed, a socket accepted after running was set
\* to false included.
C29_AcceptorOwnsStreamSockets ==
    /\ [](/\ strOpen = HeldStreamSockets
          /\ stream_sock # INVALID_SOCK => stream_sock # old_sock
          /\ pc["acceptor"] \in {"a_done", "a_joined"}
                => stream_sock = INVALID_SOCK /\ strOpen = {})
    /\ [][ /\ (pc["acceptor"] = "a_install" /\ pc'["acceptor"] # "a_install")
              => /\ stream_sock' = new_sock
                 /\ old_sock' = stream_sock
                 /\ strOpen' = strOpen
           /\ (pc["acceptor"] \in {"a_close_old", "a_close_remaining"}
                  /\ pc'["acceptor"] # pc["acceptor"])
              => /\ old_sock # INVALID_SOCK => old_sock \in strOpen
                 /\ strOpen' = strOpen \ {old_sock}
                 /\ old_sock' = INVALID_SOCK
           /\ \A s \in strOpen \ strOpen' :
                 pc["acceptor"] \in {"a_close_old", "a_close_remaining"} /\ s = old_sock
         ]_vars

\* the acceptor is about to close the socket that a second connection has
\* replaced
C29_Witness ==
    /\ pc["acceptor"] = "a_close_old"
    /\ old_sock # INVALID_SOCK
    /\ stream_sock = MaxStreams

\* the loop has exited after a connection that was accepted with running
\* already false
C29_WitnessLate ==
    /\ pc["acceptor"] = "a_done"
    /\ strAccepted = MaxStreams
    /\ strOpen = {}
    /\ stream_sock = INVALID_SOCK

\* C30: setStreamSocket swaps the sink atomically with respect to the readers
\* and returns the value that was installed.  A reader in the middle of a
\* chunk holds the mutex and writes on the installed socket, so the socket
\* the acceptor has taken out and is about to close is used by no reader, and
\* every write of a reader goes to a socket that is open.
C30_NoWriteOnReturnedSocket ==
    /\ [](\A r \in Readers :
             /\ pc[r] \in {"r_send_hdr", "r_send_payload"} => stream_mtx = r
             /\ pc[r] = "r_send_payload"
                   => /\ rsock[r] = stream_sock
                      /\ rsock[r] \in strOpen
                      /\ rsock[r] # old_sock)
    /\ [][ /\ (pc["acceptor"] \in {"a_install", "a_clear"} /\ pc'["acceptor"] # pc["acceptor"])
              => /\ old_sock' = stream_sock
                 /\ \A r \in Readers : pc[r] \notin {"r_send_hdr", "r_send_payload"}
           /\ \A r \in Readers : SendStep(r) => WritingOn(r) \in strOpen
         ]_vars

\* the acceptor is about to close the socket it took out while a reader, with
\* the mutex, is about to write its chunk on the replacement
C30_Witness ==
    /\ pc["acceptor"] = "a_close_old"
    /\ old_sock # INVALID_SOCK
    /\ \E r \in Readers : pc[r] = "r_send_hdr" /\ stream_sock # old_sock

\* the acceptor has a new socket to install while a reader is between the
\* header and the payload of a chunk on the installed one
C30_WitnessWaiting ==
    /\ pc["acceptor"] = "a_install"
    /\ stream_sock # INVALID_SOCK
    /\ \E r \in Readers : pc[r] = "r_send_payload"

\* a reader is issuing a pipe read or is blocked in one
InRead(r) == pc[r] \in {"r_read_call", "r_read_wait"}

\* C31: a reader never holds the stream mutex while it issues a pipe read or is
\* blocked in one; it holds it only from the lock to the end of the payload
\* send of one chunk, takes it only after a read has returned a chunk and
\* gives it back before the next read.  So when every reader is outside a
\* chunk the mutex is free and setStreamSocket can proceed.
C31_NoLockAcrossRead ==
    /\ [](\A r \in Readers :
             /\ InRead(r) => stream_mtx # r
             /\ stream_mtx = r => pc[r] \in {"r_send_hdr", "r_send_payload", "terminated"})
    /\ []((\A r \in Readers : pc[r] \notin {"r_send_hdr", "r_send_payload", "terminated"})
             => stream_mtx = "free")
    /\ [][\A r \in Readers :
             /\ (stream_mtx # r /\ stream_mtx' = r) => (pc[r] = "r_lock" /\ rchunk[r] > 0)
             /\ (~InRead(r) /\ InRead(r)' /\ pc[r] # "r_idle") => (stream_mtx = r /\ stream_mtx' = "free")
         ]_vars

\* the acceptor has a socket to install while a reader that has forwarded a
\* chunk is blocked in read with nothing in its pipe, and the mutex is free
C31_Witness ==
    /\ pc["acceptor"] = "a_install"
    /\ stream_mtx = "free"
    /\ \E r \in Readers :
          /\ pc[r] = "r_read_wait"
          /\ pipebuf[r] = <<>>
          /\ wopen[r]
          /\ produced[r] > 0

\* C32: in the single-file server the header and the payload of a chunk are
\* written to the stream socket with nothing of the other pipe's chunk
\* between them: from a reader's header write to its payload write the last
\* write on the socket stays this header, and the next one is this payload.
C32_MonoChunkUnsplit ==
    [][\A r \in Readers :
          pc[r] = "r_send_payload"
          => /\ strLast[rsock[r]] = Write("H", r)
             /\ strLast'[rsock[r]] \in {Write("H", r), Write("P", r)}]_vars

\* the runs of q lie in this order in the pipe's byte sequence, without overlap
InPipeOrder(q) ==
    \A i, j \in 1..Len(q) : i < j => q[i].first + q[i].len <= q[j].first

\* a chunk a reader may forward: between 1 and sizeof(buf) bytes
ChunkSized(c) == c.len >= 1 /\ c.len <= sizeof_buf

\* reader r takes a chunk out of its pipe in this step
ReadStep(r) == pc[r] = "r_read_wait" /\ pc'[r] = "r_lock"

C33_WitnessDropped ==
    \E r \in Readers :
       /\ delivered[r] # <<>>
       /\ delivered[r][1].first > 0

\* the handler thread is in acceptWithSelect or at the head of its loop
HandlerAccepting ==
    pc["handler"] \in {"hl_loop", "hl_accept_check", "hl_accept_select", "hl_done"}

\* C34: the command acceptor serves one client at a time.  At most one
\* accepted command socket is open; while the handler is outside accept that
\* socket is the one of the connection accepted last, and requests are read
\* from it alone; a connection is accepted only by the handler inside accept,
\* after the previous client socket has been closed and the field reset.
C34_OneClientAtATime ==
    /\ [](/\ Cardinality(cmdOpen) <= 1
          /\ ~HandlerAccepting => (client_sock = cmdAccepted /\ cmdOpen \subseteq {client_sock})
          /\ HandlerAccepting => cmdOpen = {})
    /\ [][ /\ cmdAccepted' # cmdAccepted
              => /\ pc["handler"] = "hl_accept_select"
                 /\ cmd_running
                 /\ cmdOpen = {}
                 /\ client_sock_field = INVALID_SOCK
                 /\ cmdAccepted' = cmdAccepted + 1
                 /\ cmdOpen' = {cmdAccepted'}
           /\ (req' # req /\ req' # NoReq)
              => /\ pc["handler"] = "hc_recv_wait"
                 /\ client_sock = cmdAccepted
                 /\ client_sock \in cmdOpen
         ]_vars

\* a second client is waiting in the listener's backlog while the handler is
\* blocked in recv on the first client's connection
C34_Witness ==
    /\ pc["handler"] = "hc_recv_wait"
    /\ client_sock = 1
    /\ 1 \in cmdPeer
    /\ cmdBacklog > 0

\* the second client is being served after the first session has ended
C34_WitnessNext ==
    /\ pc["handler"] = "hc_dispatch"
    /\ client_sock = MaxSessions
    /\ cmdOpen = {MaxSessions}

\* C35: whenever the working directory is assigned it names an existing
\* directory at that moment: the value CommandServer::open stored, as long as
\* no request has touched the filesystem, and the value every step that
\* changes the working directory stores, in the filesystem of that moment.
C35_AssignedCwdExists ==
    /\ [](cmdAccepted = 0 => is_directory(fsys, current_directory))
    /\ [][current_directory' # current_directory
             => is_directory(fsys', current_directory')]_vars

\* C36: the working directory is changed only by a successful
\* MOVE_CURRENT_WORKING_DIRECTORY: every other step of the handler (the other
\* cases, failed moves, RUN_COMMAND, OPEN_PROCESS, the end of a session, the
\* acceptance of a client) and every step of the client leaves it as it was,
\* so the next session starts with the directory the previous one left.
C36_OnlyMoveChangesCwd ==
    /\ [][current_directory' # current_directory
             => /\ AtMoveCwd
                /\ HandlerStep
                /\ result' = <<1>>
                /\ current_directory' = Target]_vars
    /\ [][(pc["handler"] = "hl_accept_select" /\ pc'["handler"] = "hl_store")
             => current_directory' = current_directory]_vars

\* the last session is being served in the directory "d" while a child that
\* was started in it exists
C36_Witness ==
    /\ cmdAccepted = MaxSessions
    /\ pc["handler"] = "hc_respond"
    /\ req.instr = INSTRUCTION_CURRENT_WORKING_DIRECTORY
    /\ current_directory = Path(TRUE, <<"d">>)
    /\ FreePids # 1..MaxPid

\* a move has just been refused
C36_WitnessRefused ==
    /\ pc["handler"] = "hc_respond"
    /\ req.instr = INSTRUCTION_MOVE_CURRENT_WORKING_DIRECTORY
    /\ result = <<0>>
    /\ cmdAccepted = MaxSessions

\* the supervisor is idle: no process registered, no child, no reader thread
SupervisorIdle ==
    /\ ~ProcessRegistered
    /\ pid_field = -1
    /\ alive = {}
    /\ joinable = [r \in Readers |-> FALSE]

\* C37: when a session ends with a process still registered, handlerLoop
\* calls close on it before it closes the client socket and before it accepts
\* the next client.  So the client socket is closed, and every client is
\* accepted, with the supervisor idle: no process of one session is left in
\* the next.
C37_SessionEndClosesProcess ==
    /\ [][ /\ (pc["handler"] = "hl_after" /\ HandlerStep /\ ProcessRegistered)
              => (pc'["handler"] = "cl_kill" /\ closeRet' = "hl_close_sock" /\ cmdOpen' = cmdOpen)
           /\ (pc["handler"] = "hl_close_sock" /\ HandlerStep) => SupervisorIdle
           /\ cmdAccepted' # cmdAccepted => SupervisorIdle
         ]_vars
    /\ [](pc["handler"] \in {"hl_clear", "hl_loop", "hl_accept_check", "hl_accept_select",
                            "hl_store"} => SupervisorIdle)

\* the session has ended with a process registered whose child is running,
\* and handlerLoop is about to close it while the client socket is still open
C37_Witness ==
    /\ pc["handler"] = "cl_kill"
    /\ closeRet = "hl_close_sock"
    /\ pid_field \in alive
    /\ client_sock \in cmdOpen

\* the next client is being accepted after a session that started a child
C37_WitnessNext ==
    /\ pc["handler"] = "hl_store"
    /\ cmdAccepted = MaxSessions
    /\ zombies \cup alive = {}
    /\ produced["out"] + produced["err"] > 0

\* the registered child has exited by itself and both reader threads have
\* left their loops at end of file; nothing has called close() or await()
ExitedUnreaped ==
    /\ ProcessRegistered
    /\ pid_field \in zombies
    /\ pid_field \notin signalled
    /\ \A r \in Readers : joinable[r] /\ pc[r] = "r_done"

\* C38: a successful OPEN_PROCESS leaves the supervisor registered, and the
\* registration is given up only by the reapProcess() of await() or close():
\* the exit of the child and the end of file on both pipes do not change it.
\* While it lasts, an OPEN_PROCESS is answered -1 and a RUN_COMMAND is
\* answered without anything being executed or awaited; close() is entered
\* from the dispatcher only for a CLOSE_PROCESS whose token is not -1, and
\* otherwise at the end of the session.
C38_RegisteredUntilCloseOrAwait ==
    /\ [](pc["handler"] = "hc_respond" /\ req.instr = INSTRUCTION_OPEN_PROCESS
            /\ execRet # -1 => ProcessRegistered)
    /\ [][ /\ (ProcessRegistered /\ ~ProcessRegistered')
               => /\ pc["handler"] \in {"aw_reap", "cl_reap"}
                  /\ pc'["handler"] # pc["handler"]
                  /\ pc["handler"] = "cl_reap" /\ closeRet = "hc_respond"
                       => req.instr = INSTRUCTION_CLOSE_PROCESS /\ ParsedToken(req) # -1
           /\ (ProcessRegistered /\ pc["handler"] = "hc_dispatch" /\ HandlerStep
                 /\ req.instr \in {INSTRUCTION_OPEN_PROCESS, INSTRUCTION_RUN_COMMAND})
               => /\ execRet' = -1
                  /\ pc'["handler"] = "hc_respond"
                  /\ UNCHANGED <<procVars, produced>>
           /\ (pc["handler"] = "hc_dispatch" /\ pc'["handler"] = "cl_kill")
               => req.instr = INSTRUCTION_CLOSE_PROCESS /\ ParsedToken(req) # -1
         ]_vars

\* OPEN_PROCESS is about to be served while the registered child has exited
\* and both pipes have reached end of file
C38_Witness ==
    /\ ExitedUnreaped
    /\ pc["handler"] = "hc_dispatch"
    /\ req.instr = INSTRUCTION_OPEN_PROCESS

\* RUN_COMMAND was acknowledged in that state without executing anything
C38_WitnessRun ==
    /\ ExitedUnreaped
    /\ pc["handler"] = "hc_loop"
    /\ lastResp.instr = INSTRUCTION_RUN_COMMAND
    /\ execRet = -1

\* a CLOSE_PROCESS with a token other than -1 has reset the supervisor: nothing
\* is registered and no child is left, after children had produced output
C38_WitnessClosed ==
    /\ pc["handler"] = "hc_respond"
    /\ req.instr = INSTRUCTION_CLOSE_PROCESS
    /\ ParsedToken(req) # -1
    /\ ~ProcessRegistered
    /\ signalled = {}
    /\ zombies = {}
    /\ alive = {}
    /\ produced["out"] + produced["err"] > 0

\* C39: every closeSocket on an accepted command socket finds it open: the
\* handler thread's closeSocket(client_sock) at the end of the session and the
\* closeSocket(_client_sock) of CommandServer::close never both close the
\* same descriptor.
C39_ClientSocketClosedOnce ==
    [][ /\ (pc["handler"] = "hl_close_sock" /\ HandlerStep) => client_sock \in cmdOpen
        /\ (pc["main"] = "m_cmd_wake" /\ pc'["main"] # pc["main"]
              /\ client_sock_field # INVALID_SOCK) => client_sock_field \in cmdOpen
      ]_vars

\* C40: in every response frame the payload_length of the header is the
\* number of payload bytes written after the header, for LIST_DIRECTORY_CONTENTS
\* and DOWNLOAD_FILE whatever the number of entries and the size of the file.
C40_LengthIsBytesWritten ==
    frame.sent => frame.payload_length = frame.written

====
